---------------------------- MODULE Spec2Model ----------------------------
(***************************************************************************)
(* Task Vantage: delegated-authentication tool-dispatch gateway.           *)
(*                                                                         *)
(* Strings are modelled as sequences of one-character strings, so that     *)
(* trimming, slicing, splitting and prefix matching are computed the way   *)
(* the JavaScript source computes them.                                    *)
(*                                                                         *)
(* The module holds several specifications over one set of variables:      *)
(*   SpecNorm    the response text normalizer (extractResponseText)        *)
(*   SpecClaims  the claims normalizer (getAuth of the resource API)       *)
(*   SpecAuth    the ingress verifier (authMiddleware)                     *)
(*   SpecBridge  the downstream bridge (createMCPClient, cleanup)          *)
(*   SpecCalls   the tool calls made on a bridge (callTool)                *)
(*   SpecChat    the chat endpoint (handleChat)                            *)
(*   SpecTools   the tool registry and dispatcher (server.tool handlers)   *)
(* A specification leaves the variables of the other components at their   *)
(* idle values.                                                            *)
(***************************************************************************)
EXTENDS Integers, Sequences, FiniteSets, TLC

VARIABLES
    norm,       \* the normalizer run: its input, its outputs, its position
    claim,      \* the claims normalizer run: context token and principal
    authEnabled,\* env.AUTH_ENABLED of the resource API process
    reqs,       \* resource API requests in flight, one record per request
    bridge,     \* the bridge connection built by createMCPClient
    chat,       \* the chat request being handled by handleChat
    tool,       \* the tool invocations being dispatched by the tool server
    peer        \* the bridge built for a second, concurrent chat request

vars == <<norm, claim, authEnabled, reqs, bridge, chat, tool, peer>>

-----------------------------------------------------------------------------
(* String helpers (String.prototype.trim, slice, repeat).                  *)

\* Characters String.prototype.trim strips, restricted to the model alphabet.
IsSpace(c) == c \in {" "}

\* s.slice(from, to): zero-based, `to` exclusive, both clamped to the length.
Slice(s, from, to) ==
    LET t == IF to > Len(s) THEN Len(s) ELSE to
    IN  IF from >= t THEN <<>> ELSE SubSeq(s, from + 1, t)

RECURSIVE TrimStart(_)
TrimStart(s) ==
    IF s = <<>> THEN <<>>
    ELSE IF IsSpace(Head(s)) THEN TrimStart(Tail(s)) ELSE s

RECURSIVE TrimEnd(_)
TrimEnd(s) ==
    IF s = <<>> THEN <<>>
    ELSE IF IsSpace(s[Len(s)]) THEN TrimEnd(SubSeq(s, 1, Len(s) - 1)) ELSE s

\* s.trim()
Trim(s) == TrimEnd(TrimStart(s))

\* unit.repeat(n)
RECURSIVE Repeat(_, _)
Repeat(unit, n) == IF n <= 0 THEN <<>> ELSE unit \o Repeat(unit, n - 1)

\* All sequences over S of length at most n.
SeqsUpTo(S, n) == UNION {[1..k -> S] : k \in 0..n}

-----------------------------------------------------------------------------
(* Response text normalizer: extractResponseText.                          *)

\* The halves check applies to texts longer than this.
HalvesMinLength == 50

\* A candidate test that accepts whole repetitions of the unit only.
RepeatedWholeEquals(text, len) ==
    Len(text) % len = 0 /\ Repeat(Slice(text, 0, len), Len(text) \div len) = text

\* One candidate of the tiling loop: the unit of length len, repeated and cut
\* to the length of the text, equals the text.
RepeatedEquals(text, len) ==
    LET unit     == Slice(text, 0, len)
        repeated == Slice(Repeat(unit, (Len(text) + len - 1) \div len), 0, Len(text))
    IN  repeated = text

\* for (let len = 1; len <= text.length / 2; len++): the first len whose unit
\* tiles the text, 0 when the loop ends without one.
RECURSIVE TilingLoop(_, _)
TilingLoop(text, len) ==
    IF 2 * len > Len(text) THEN 0
    ELSE IF RepeatedEquals(text, len) THEN len
    ELSE TilingLoop(text, len + 1)

\* A tiling loop that runs while len <= text.length.
RECURSIVE TilingCandidatesToLength(_, _)
TilingCandidatesToLength(text, len) ==
    IF len > Len(text) THEN 0
    ELSE IF RepeatedEquals(text, len) THEN 1
    ELSE 1 + TilingCandidatesToLength(text, len + 1)

\* The number of iterations of the tiling loop from len on: each tests one
\* candidate, and the loop ends at the first that tiles or when
\* len > text.length / 2.
RECURSIVE TilingCandidates(_, _)
TilingCandidates(text, len) ==
    IF 2 * len > Len(text) THEN 0
    ELSE IF RepeatedEquals(text, len) THEN 1
    ELSE 1 + TilingCandidates(text, len + 1)

\* A halves check without the minimum length.
HalvesCheckNoMinLength(text) ==
    LET half == Len(text) \div 2
    IN  IF Trim(Slice(text, 0, half)) = Trim(Slice(text, half, Len(text)))
        THEN Trim(Slice(text, 0, half))
        ELSE text

\* The halves check that follows the tiling loop.
HalvesCheck(text) ==
    LET half == Len(text) \div 2
    IN  IF Len(text) > HalvesMinLength
           /\ Trim(Slice(text, 0, half)) = Trim(Slice(text, half, Len(text)))
        THEN Trim(Slice(text, 0, half))
        ELSE text

\* A normalizer that returns the repeating unit as it was cut.
extractResponseTextRawUnit(content) ==
    LET text == Trim(content)
        len  == TilingLoop(text, 1)
    IN  IF len # 0 THEN Slice(text, 0, len) ELSE HalvesCheck(text)

\* extractResponseText applied to string content.
extractResponseText(content) ==
    LET text == Trim(content)
        len  == TilingLoop(text, 1)
    IN  IF len # 0 THEN Trim(Slice(text, 0, len)) ELSE HalvesCheck(text)

\* Bounds of the normalizer inputs.
MaxLen == 7
HalfSpread == 2

\* "a...ab" with n letters a: a word that no shorter unit tiles.
Word(n) == [i \in 1..(n + 1) |-> IF i = n + 1 THEN "b" ELSE "a"]

HelloWorld == <<"H","e","l","l","o"," ","w","o","r","l","d">>
Hello == <<"H","e","l","l","o">>

\* The inputs: short strings, long inputs around the length HalvesMinLength
\* (two words, optionally separated by white space) and examples.
NormInputs ==
    LET h == HalvesMinLength \div 2
    IN  SeqsUpTo({"a", "b", " "}, MaxLen)
          \cup { Word(n) \o sep \o Word(m) :
                   n \in (h - 1 - HalfSpread)..(h - 1 + HalfSpread),
                   m \in (h - 1 - HalfSpread)..(h - 1 + HalfSpread),
                   sep \in {<<>>, <<" ">>, <<" ", " ">>} }
          \cup {HelloWorld \o HelloWorld, <<"A","A","A">>, Hello}

NormIdle ==
    [pc |-> "idle", input |-> <<>>, out1 |-> <<>>, out2 |-> <<>>,
     tried |-> 0, same |-> <<>>]


-----------------------------------------------------------------------------
(* Claims normalizer: getAuth of the resource API.                         *)

\* A claim value of a payload: its JavaScript type and its value.
Absent == [t |-> "absent", v |-> <<>>]
Str(s) == [t |-> "string", v |-> s]
Arr(a) == [t |-> "array", v |-> a]

\* env.API_DEFAULT_ORG
API_DEFAULT_ORG == <<"d","e","m","o">>
\* The literal 'anonymous'
Anonymous == <<"a","n","o","n","y","m","o","u","s">>

\* Index of the first separator in s, 0 when there is none.
RECURSIVE IndexOf(_, _, _)
IndexOf(s, sep, i) ==
    IF i > Len(s) THEN 0
    ELSE IF s[i] = sep THEN i ELSE IndexOf(s, sep, i + 1)

\* s.split(sep) for a one-character separator: the pieces between the
\* separators, the empty ones included.
RECURSIVE Split(_, _)
Split(s, sep) ==
    LET i == IndexOf(s, sep, 1)
    IN  IF i = 0 THEN <<s>>
        ELSE <<SubSeq(s, 1, i - 1)>> \o Split(SubSeq(s, i + 1, Len(s)), sep)

\* pieces.filter(Boolean): the empty string is the only falsy string.
FilterBoolean(pieces) == SelectSeq(pieces, LAMBDA p : Len(p) > 0)

Contains(seq, x) == \E i \in 1..Len(seq) : seq[i] = x

\* [...new Set(items)]: the items in first-insertion order, each once.
RECURSIVE SetSpreadFrom(_, _)
SetSpreadFrom(items, acc) ==
    IF items = <<>> THEN acc
    ELSE SetSpreadFrom(Tail(items),
                       IF Contains(acc, Head(items)) THEN acc
                       ELSE Append(acc, Head(items)))

SetSpreadKeepAll(items) == items

SetSpread(items) == SetSpreadFrom(items, <<>>)

\* The scope claim as an array: an array as it is, a string split on single
\* spaces without its empty pieces, anything else empty.
ScopeArray(scopeValue) ==
    IF scopeValue.t = "array" THEN scopeValue.v
    ELSE IF scopeValue.t = "string" THEN FilterBoolean(Split(scopeValue.v, " "))
    ELSE <<>>

PermissionsArray(permissionsValue) ==
    IF permissionsValue.t = "array" THEN permissionsValue.v ELSE <<>>

\* The value context.get('auth0Token') gives: nothing, or a verified payload.
NoToken == [present |-> FALSE, sub |-> Absent, org_id |-> Absent,
            scope |-> Absent, permissions |-> Absent]

Payload(sub, org, scope, permissions) ==
    [present |-> TRUE, sub |-> sub, org_id |-> org,
     scope |-> scope, permissions |-> permissions]

\* The verifier can hand the payload over inside a result object, under its
\* payload field, instead of handing over the payload itself.
Wrapped(payload) == [present |-> TRUE, payload |-> payload]

\* token?.payload || token || {}: a missing token gives the empty user {},
\* all of whose claims are absent.
User(token) ==
    IF "payload" \in DOMAIN token THEN token.payload ELSE token

\* A normalizer that tests the type of the subject claim and not its content.
getAuthKeepsEmptySub(token) ==
    LET user   == User(token)
        userId == IF user.sub.t = "string" THEN user.sub.v ELSE Anonymous
        orgId  == IF user.org_id.t = "string" /\ Len(user.org_id.v) > 0
                  THEN user.org_id.v ELSE API_DEFAULT_ORG
        scopes == SetSpread(ScopeArray(user.scope)
                            \o PermissionsArray(user.permissions))
    IN  [userId |-> userId, orgId |-> orgId, scopes |-> scopes]

\* getAuth(context), given the token stored in the context.
getAuth(token) ==
    LET user   == User(token)
        userId == IF user.sub.t = "string" /\ Len(user.sub.v) > 0
                  THEN user.sub.v ELSE Anonymous
        orgId  == IF user.org_id.t = "string" /\ Len(user.org_id.v) > 0
                  THEN user.org_id.v ELSE API_DEFAULT_ORG
        scopes == SetSpread(ScopeArray(user.scope)
                            \o PermissionsArray(user.permissions))
    IN  [userId |-> userId, orgId |-> orgId, scopes |-> scopes]

\* Bounds of the payloads.
MaxScopeLen == 5
MaxPermissions == 2

ScopeClaims ==
    {Absent} \cup {Str(s) : s \in SeqsUpTo({"a", "b", " "}, MaxScopeLen)}
             \cup {Arr(a) : a \in SeqsUpTo({<<>>, <<"a">>, <<"a", " ", "b">>}, MaxPermissions)}

PermissionClaims ==
    {Absent, Str(<<"a">>)}
        \cup {Arr(a) : a \in SeqsUpTo({<<"a">>, <<"b">>, <<"c">>}, MaxPermissions)}

SubjectClaims == {Absent, Str(<<>>), Str(<<"u", "1">>), [t |-> "number", v |-> <<>>]}
OrgClaims == {Absent, Str(<<>>), Str(<<"o", "1">>), [t |-> "number", v |-> <<>>]}

ClaimTokens ==
    {NoToken}
      \cup {Payload(Str(<<"u", "1">>), Absent, sc, pm) :
                sc \in ScopeClaims, pm \in PermissionClaims}
      \cup {Payload(sb, og, Str(<<"a">>), Absent) :
                sb \in SubjectClaims, og \in OrgClaims}
      \cup {Wrapped(Payload(sb, og, sc, Arr(<< <<"c">> >>))) :
                sb \in SubjectClaims, og \in OrgClaims,
                sc \in {Absent, Str(<<"a", " ", "b">>)}}

NoPrincipal == [userId |-> <<>>, orgId |-> <<>>, scopes |-> <<>>]

\* The body of the scope gate: `insufficient_scope, need: ${needed}`.
InsufficientScope ==
    <<"i","n","s","u","f","f","i","c","i","e","n","t","_","s","c","o","p","e",
      ",", " ", "n","e","e","d",":"," ">>

\* The gate returns nothing (undefined) when it lets the operation proceed.
NoGateResponse == [status |-> 0, error |-> <<>>]

Forbidden(needed) == [status |-> 403, error |-> InsufficientScope \o needed]

\* A gate that looks for the scope in the scope claim alone.
requireScopeOfScopeClaim(needed, token) ==
    IF ~Contains(ScopeArray(User(token).scope), needed)
    THEN Forbidden(needed)
    ELSE NoGateResponse

\* requireScope(needed)(c): 403 unless the scopes of the principal include
\* the needed scope.
requireScope(needed, token) ==
    LET scopes == getAuth(token).scopes
    IN  IF ~Contains(scopes, needed)
        THEN Forbidden(needed)
        ELSE NoGateResponse

ClaimIdle ==
    [pc |-> "idle", token |-> NoToken, principal |-> NoPrincipal,
     needed |-> <<>>, gate |-> NoGateResponse]

-----------------------------------------------------------------------------
(* Ingress verifier: applyAuth and authMiddleware of the resource API.     *)

\* Number of requests in flight.
MaxRequests == 2

Requests == 1..MaxRequests

\* The letters of the scheme name, folded as the regular expression's i flag
\* folds them.
Lower(c) ==
    CASE c = "B" -> "b" [] c = "E" -> "e" [] c = "A" -> "a" [] c = "R" -> "r"
      [] OTHER -> c

BearerWord == <<"b","e","a","r","e","r">>
BearerScheme == <<"B","e","a","r","e","r">>

\* header.replace(/^Bearer\s+/i, ''): the scheme name in any letter case at
\* the start, followed by at least one white space character, is removed
\* together with all the white space that follows it.
ReplaceBearerPrefix(header) ==
    IF /\ Len(header) > Len(BearerWord)
       /\ [i \in 1..Len(BearerWord) |-> Lower(header[i])] = BearerWord
       /\ IsSpace(header[Len(BearerWord) + 1])
    THEN TrimStart(SubSeq(header, Len(BearerWord) + 1, Len(header)))
    ELSE header

\* The Authorization header of a request: absent, or a string.
NoHeader == [present |-> FALSE, value |-> <<>>]
Header(h) == [present |-> TRUE, value |-> h]

\* context.req.header('authorization') || ''
AuthHeader(header) == IF header.present THEN header.value ELSE <<>>

\* The access token authMiddleware extracts from the header.
AccessToken(header) == Trim(ReplaceBearerPrefix(AuthHeader(header)))

\* Tokens and headers of the model.
TokenA == <<"x">>
TokenB == <<"y">>
TokenBad == <<"z", "z">>

Headers ==
    {NoHeader}
      \cup { Header(prefix \o gap \o token) :
               prefix \in {<<>>, BearerScheme, BearerWord},
               gap \in {<<>>, <<" ">>},
               token \in {<<>>, TokenA, TokenBad} }
      \cup { Header(<<" ", " ">>),
             Header(BearerScheme \o <<" ">> \o TokenB),
             Header(BearerScheme \o <<" ", " ">> \o TokenA \o <<" ">>) }

\* apiClient.verifyAccessToken is the identity provider's: it resolves with
\* the payload of a token it issued and rejects every other token; it can
\* also reject a token it issued (an unreachable key set, an expired token).
VerifyOutcomes(token) ==
    IF token \in {TokenA, TokenB} THEN {"ok", "fail"} ELSE {"fail"}

\* The payload the identity provider signed into a token.
DecodedToken(token) ==
    Payload(Str(<<"u">> \o token), Absent, Str(<<"a">>), Absent)

\* The WWW-Authenticate challenge: Bearer resource="<API_AUTH0_AUDIENCE>".
NoChallenge == [scheme |-> "none", resource |-> "none"]
Challenge == [scheme |-> "Bearer", resource |-> "API_AUTH0_AUDIENCE"]

NoResponse == [status |-> 0, error |-> "none", challenge |-> NoChallenge]

MissingTokenResponse ==
    [status |-> 401, error |-> "Unauthorized: Missing access token",
     challenge |-> Challenge]

InvalidTokenResponse ==
    [status |-> 401, error |-> "Unauthorized: Invalid access token",
     challenge |-> Challenge]

\* What the route handler behind the middleware answers.
HandlerResponse(outcome) ==
    IF outcome = "ok"
    THEN [status |-> 200, error |-> "none", challenge |-> NoChallenge]
    ELSE [status |-> 500, error |-> "Internal Server Error",
          challenge |-> NoChallenge]

\* One console.log call of authMiddleware: its text and the value printed
\* after it: nothing, the decoded payload, or the error of the verifier.
LogEntry(text, t, v) == [text |-> text, value |-> [t |-> t, v |-> v]]

NewRequest(header) ==
    [pc |-> "start", header |-> header, accessToken |-> <<>>, log |-> <<>>,
     verifyCalls |-> 0, verifyOutcome |-> "none", auth0Token |-> NoToken,
     nextCalls |-> 0, handlerRuns |-> 0, principal |-> NoPrincipal,
     response |-> NoResponse]

\* authMiddleware up to its first await: the token is taken from the header;
\* without one the request is answered at once, otherwise verification starts.
MiddlewareEnter(r) ==
    LET accessToken == AccessToken(r.header)
    IN  IF Len(accessToken) = 0
        THEN [r EXCEPT !.pc = "done", !.response = MissingTokenResponse,
                       !.log = Append(@, LogEntry("No access token provided", "none", "none"))]
        ELSE [r EXCEPT !.pc = "verifying", !.accessToken = accessToken,
                       !.verifyCalls = @ + 1,
                       !.log = Append(@, LogEntry("Verifying access token...", "none", "none"))]

\* authMiddleware after verifyAccessToken has settled: on success the payload
\* is logged and stored in the context and next() is called, on failure the
\* catch block logs the error and answers.
MiddlewareRetriesOnce(r, outcome) ==
    IF outcome = "ok"
    THEN [r EXCEPT !.pc = "next", !.verifyOutcome = outcome,
                   !.auth0Token = DecodedToken(r.accessToken),
                   !.nextCalls = @ + 1,
                   !.log = Append(@, LogEntry("Token verified successfully:",
                                     "payload", DecodedToken(r.accessToken)))]
    ELSE IF r.verifyCalls < 2
    THEN [r EXCEPT !.verifyCalls = @ + 1]
    ELSE [r EXCEPT !.pc = "done", !.verifyOutcome = outcome,
                   !.response = InvalidTokenResponse,
                   !.log = Append(@, LogEntry("Error verifying access token:",
                                     "error", "verification failed"))]

MiddlewareSettled(r, outcome) ==
    IF outcome = "ok"
    THEN [r EXCEPT !.pc = "next", !.verifyOutcome = outcome,
                   !.auth0Token = DecodedToken(r.accessToken),
                   !.nextCalls = @ + 1,
                   !.log = Append(@, LogEntry("Token verified successfully:",
                                     "payload", DecodedToken(r.accessToken)))]
    ELSE [r EXCEPT !.pc = "done", !.verifyOutcome = outcome,
                   !.response = InvalidTokenResponse,
                   !.log = Append(@, LogEntry("Error verifying access token:",
                                     "error", "verification failed"))]

\* An applyAuth that installs the middleware whatever the configuration.
authMiddlewareAlwaysInstalled(i) ==
    /\ reqs[i].pc = "start"
    /\ reqs' = [reqs EXCEPT ![i] = MiddlewareEnter(reqs[i])]
    /\ UNCHANGED <<norm, claim, authEnabled, bridge, chat, tool, peer>>

\* A request arrives.  With authentication enabled applyAuth has installed
\* authMiddleware on every route; without it no middleware runs and the
\* request goes straight to its route handler.
authMiddleware(i) ==
    /\ reqs[i].pc = "start"
    /\ reqs' = [reqs EXCEPT ![i] =
                  IF authEnabled THEN MiddlewareEnter(reqs[i])
                  ELSE [reqs[i] EXCEPT !.pc = "next", !.nextCalls = @ + 1]]
    /\ UNCHANGED <<norm, claim, authEnabled, bridge, chat, tool, peer>>

\* verifyAccessToken settles for request i.
verifyAccessToken(i) ==
    /\ reqs[i].pc = "verifying"
    /\ \E outcome \in VerifyOutcomes(reqs[i].accessToken) :
          reqs' = [reqs EXCEPT ![i] = MiddlewareSettled(reqs[i], outcome)]
    /\ UNCHANGED <<norm, claim, authEnabled, bridge, chat, tool, peer>>

\* A handler that reads the verified payload from a place shared by the
\* requests and not from its own context.
routeHandlerSharedToken(i) ==
    /\ reqs[i].pc = "next"
    /\ \E outcome \in {"ok", "throw"}, j \in Requests :
          reqs' = [reqs EXCEPT ![i] =
                     [reqs[i] EXCEPT !.pc = "done", !.handlerRuns = @ + 1,
                                     !.principal = getAuth(reqs[j].auth0Token),
                                     !.response = HandlerResponse(outcome)]]
    /\ UNCHANGED <<norm, claim, authEnabled, bridge, chat, tool, peer>>

\* A handler whose error reaches the catch block of authMiddleware.
routeHandlerCaughtByMiddleware(i) ==
    /\ reqs[i].pc = "next"
    /\ \E outcome \in {"ok", "throw"} :
          reqs' = [reqs EXCEPT ![i] =
                     [reqs[i] EXCEPT !.pc = "done", !.handlerRuns = @ + 1,
                                     !.principal = getAuth(reqs[i].auth0Token),
                                     !.response =
                                        IF outcome = "throw" /\ authEnabled
                                        THEN InvalidTokenResponse
                                        ELSE HandlerResponse(outcome)]]
    /\ UNCHANGED <<norm, claim, authEnabled, bridge, chat, tool, peer>>

\* The route handler behind the middleware runs: it reads the principal with
\* getAuth(context) and answers, or throws.
routeHandler(i) ==
    /\ reqs[i].pc = "next"
    /\ \E outcome \in {"ok", "throw"} :
          reqs' = [reqs EXCEPT ![i] =
                     [reqs[i] EXCEPT !.pc = "done", !.handlerRuns = @ + 1,
                                     !.principal = getAuth(reqs[i].auth0Token),
                                     !.response = HandlerResponse(outcome)]]
    /\ UNCHANGED <<norm, claim, authEnabled, bridge, chat, tool, peer>>

ReqsIdle == [i \in Requests |-> NewRequest(NoHeader)]

-----------------------------------------------------------------------------
(* Downstream bridge: createMCPClient and the cleanup of the object it     *)
(* returns.                                                                *)

\* Number of cleanup calls made on one bridge.
MaxCleanupCalls == 3

\* The caller credential: null, the empty string, or a token.
BridgeCredentials == {"null", "", "tokM"}

\* if (accessToken): null and the empty string are falsy.
Truthy(accessToken) == accessToken \notin {"null", ""}

\* Client.close and StreamableHTTPClientTransport.close belong to the
\* protocol library: a close resolves or rejects.  A close that resolves
\* leaves the object closed; one that rejects may or may not have closed it.
CloseOutcomes == {"ok", "throw"}

CloseStatuses(status, outcome) ==
    IF outcome = "ok" THEN {"closed"} ELSE {status, "closed"}

\* How the body of createMCPClient can end: normally, or with an exception
\* from the transport constructor, the client constructor, client.connect or
\* client.listTools.
CreateOutcomes == {"ok", "transportThrow", "clientThrow", "connectThrow", "listThrow"}

\* A transport built without the authProvider option.
AuthProviderOmitted(accessToken) == "none"

\* transportOptions.authProvider: its tokens() gives the access token, of
\* type Bearer; the option is set only for a truthy access token.
AuthProvider(accessToken) ==
    IF Truthy(accessToken) THEN accessToken ELSE "none"

\* The Authorization header the transport puts on a request: the token its
\* authProvider supplies, as a Bearer token, and none without an authProvider.
NoAuthorization == [scheme |-> "none", token |-> "none"]

Authorization(authProvider) ==
    IF authProvider = "none" THEN NoAuthorization
    ELSE [scheme |-> "Bearer", token |-> authProvider]

\* A request the transport sends to the tool server.
Outbound(method, authProvider) ==
    [method |-> method, authorization |-> Authorization(authProvider)]

\* The tools the tool server lists.
DiscoveredTools == <<"tv_list_tasks", "tv_get_task">>

\* tokenExchangeTime: null, or a difference of two readings of the clock,
\* named by the moments they were taken at: exchangeStartTime is read when
\* call k enters callTool, and the second reading is taken when its
\* client.callTool has resolved.
NoTime == [measured |-> FALSE, call |-> 0, from |-> "none", to |-> "none"]
Elapsed(k) ==
    [measured |-> TRUE, call |-> k,
     from |-> "callTool entered", to |-> "client.callTool resolved"]

BridgeIdle ==
    [state |-> "none", accessToken |-> "null", authProvider |-> "none",
     client |-> "none", transport |-> "none",
     clientCloseAttempts |-> 0, transportCloseAttempts |-> 0,
     cleanupCalls |-> 0, cleanupRaised |-> FALSE,
     lastCleanup |-> [client |-> "none", transport |-> "none"],
     connect |-> "none", listTools |-> "none",
     error |-> "none", outbound |-> <<>>, tools |-> <<>>, calls |-> <<>>,
     exchangedScopes |-> "null", tokenExchangeTime |-> NoTime,
     metadata |-> [returned |-> FALSE, exchangedScopes |-> "null",
                   tokenExchangeTime |-> NoTime]]

\* A createMCPClient whose catch block closes the client and the transport in
\* one try block of its own: a close of the client that throws skips the
\* close of the transport, and its error is the one thrown.
createMCPClientClosesInOneTry(accessToken, out, cNew, tNew) ==
    LET hasTransport == out # "transportThrow"
        hasClient    == out \notin {"transportThrow", "clientThrow"}
        closeThrew   == hasClient /\ cNew = "open"
        authProvider == AuthProvider(accessToken)
    IN  [BridgeIdle EXCEPT
            !.state = IF out = "ok" THEN "connected" ELSE "failed",
            !.accessToken = accessToken,
            !.authProvider = authProvider,
            !.connect = IF out \in {"listThrow", "ok"} THEN "ok"
                        ELSE IF out = "connectThrow" THEN "throw" ELSE "none",
            !.listTools = IF out = "ok" THEN "ok"
                          ELSE IF out = "listThrow" THEN "throw" ELSE "none",
            !.tools = IF out = "ok" THEN DiscoveredTools ELSE <<>>,
            !.error = IF out = "ok" THEN "none"
                      ELSE IF closeThrew THEN "closeThrow" ELSE out,
            !.client = IF ~hasClient THEN "none"
                       ELSE IF out = "ok" THEN "open" ELSE cNew,
            !.clientCloseAttempts = IF hasClient /\ out # "ok" THEN 1 ELSE 0,
            !.transport = IF ~hasTransport THEN "none"
                          ELSE IF out = "ok" \/ closeThrew THEN "open" ELSE tNew,
            !.transportCloseAttempts =
                IF hasTransport /\ out # "ok" /\ ~closeThrew THEN 1 ELSE 0]

\* A createMCPClient that returns the bridge object although the discovery of
\* the tools failed.
createMCPClientWithoutTools(accessToken, out, cNew, tNew) ==
    LET authProvider == AuthProvider(accessToken)
    IN  [BridgeIdle EXCEPT
            !.state = IF out \in {"ok", "listThrow"} THEN "connected" ELSE "failed",
            !.accessToken = accessToken,
            !.authProvider = authProvider,
            !.transport = IF out # "transportThrow" THEN "open" ELSE "none",
            !.client = IF out \notin {"transportThrow", "clientThrow"}
                       THEN "open" ELSE "none",
            !.connect = IF out \in {"ok", "listThrow"} THEN "ok"
                        ELSE IF out = "connectThrow" THEN "throw" ELSE "none",
            !.listTools = IF out = "ok" THEN "ok"
                          ELSE IF out = "listThrow" THEN "throw" ELSE "none",
            !.error = IF out \in {"ok", "listThrow"} THEN "none" ELSE out,
            !.tools = IF out = "ok" THEN DiscoveredTools ELSE <<>>]

\* createMCPClient(accessToken).  out is how the try block ends; cNew and tNew
\* are the states the closes of the catch block leave the client and the
\* transport in.  On failure each object that exists is closed, each close
\* with its own .catch, and the original error is thrown again.
createMCPClient(accessToken, out, cNew, tNew) ==
    LET hasTransport == out # "transportThrow"
        hasClient    == out \notin {"transportThrow", "clientThrow"}
        authProvider == AuthProvider(accessToken)
        connect      == IF hasClient THEN <<Outbound("initialize", authProvider)>>
                        ELSE <<>>
        listTools    == IF out \in {"listThrow", "ok"}
                        THEN <<Outbound("tools/list", authProvider)>> ELSE <<>>
        base == [BridgeIdle EXCEPT
                   !.accessToken = accessToken,
                   !.authProvider = authProvider,
                   !.transport = IF hasTransport THEN "open" ELSE "none",
                   !.client = IF hasClient THEN "open" ELSE "none",
                   !.connect = IF out \in {"listThrow", "ok"} THEN "ok"
                               ELSE IF out = "connectThrow" THEN "throw"
                               ELSE "none",
                   !.listTools = IF out = "ok" THEN "ok"
                                 ELSE IF out = "listThrow" THEN "throw"
                                 ELSE "none",
                   !.outbound = connect \o listTools]
    IN  IF out = "ok"
        THEN [base EXCEPT !.state = "connected", !.tools = DiscoveredTools]
        ELSE [base EXCEPT
                !.state = "failed",
                !.error = out,
                !.client = IF hasClient THEN cNew ELSE @,
                !.clientCloseAttempts = IF hasClient THEN @ + 1 ELSE @,
                !.transport = IF hasTransport THEN tNew ELSE @,
                !.transportCloseAttempts = IF hasTransport THEN @ + 1 ELSE @]

\* cleanup(): one try block closes the client and then the transport; the
\* catch block logs the first error and nothing is thrown.  A close of the
\* client that throws leaves the try block before the transport is closed.
cleanup(b, cOut, tOut, cNew, tNew) ==
    LET clientTried    == b.client # "none"
        clientThrew    == clientTried /\ cOut = "throw"
        transportTried == ~clientThrew /\ b.transport # "none"
    IN  [b EXCEPT
           !.client = IF clientTried THEN cNew ELSE @,
           !.clientCloseAttempts = IF clientTried THEN @ + 1 ELSE @,
           !.transport = IF transportTried THEN tNew ELSE @,
           !.transportCloseAttempts = IF transportTried THEN @ + 1 ELSE @,
           !.cleanupCalls = @ + 1,
           !.cleanupRaised = FALSE,
           !.lastCleanup = [client    |-> IF clientTried THEN cOut ELSE "skipped",
                            transport |-> IF transportTried THEN tOut
                                          ELSE "skipped"]]

\* Bound of the tool calls made on one bridge.
MaxCalls == 3

\* What the remote call of a tool resolves with: a result without a text
\* block, or with a text that is not JSON, or with JSON text that discloses
\* no scopes or some scopes.
RemoteResults ==
    {[text |-> "none", exchangedScopes |-> "none"],
     [text |-> "not json", exchangedScopes |-> "none"],
     [text |-> "json", exchangedScopes |-> "none"],
     [text |-> "json", exchangedScopes |-> "tasks:read"],
     [text |-> "json", exchangedScopes |-> "tasks:write"]}

NoResult == [text |-> "none", exchangedScopes |-> "none"]

RemoteErrors == {"tool failed", "timeout"}

\* A bridge that forwards no call once a call has failed.
callToolHaltsAfterFailure(b, name) ==
    LET needsTokenExchange == Truthy(b.accessToken) /\ b.tokenExchangeTime = NoTime
        sent == /\ b.client = "open"
                /\ \A k \in 1..Len(b.calls) : b.calls[k].status # "failed"
    IN  [b EXCEPT
           !.calls = Append(@, [name |-> name, status |-> "pending",
                                sent |-> sent, attempts |-> 1,
                                needsTokenExchange |-> needsTokenExchange,
                                remote |-> NoResult, result |-> NoResult,
                                remoteError |-> "none",
                                raised |-> "none"]),
           !.outbound = IF sent THEN Append(@, Outbound("tools/call", b.authProvider))
                        ELSE @]

\* callTool(name, args) up to its await: the token exchange is to be timed
\* when the bridge has an access token and no time is recorded yet, and
\* client.callTool is called, once.  A client that is open sends the request.
callTool(b, name) ==
    LET needsTokenExchange == Truthy(b.accessToken) /\ b.tokenExchangeTime = NoTime
        sent == b.client = "open"
    IN  [b EXCEPT
           !.calls = Append(@, [name |-> name, status |-> "pending",
                                sent |-> sent, attempts |-> 1,
                                needsTokenExchange |-> needsTokenExchange,
                                remote |-> NoResult, result |-> NoResult,
                                remoteError |-> "none",
                                raised |-> "none"]),
           !.outbound = IF sent THEN Append(@, Outbound("tools/call", b.authProvider))
                        ELSE @]

\* A callTool that calls the remote tool a second time when the first call
\* fails.
callToolRetries(b, k, out, result, error) ==
    IF out = "ok"
    THEN [b EXCEPT !.calls[k].status = "ok", !.calls[k].remote = result,
                   !.calls[k].result = result]
    ELSE IF b.calls[k].attempts < 2
    THEN [b EXCEPT !.calls[k].attempts = @ + 1,
                   !.outbound = Append(@, Outbound("tools/call", b.authProvider))]
    ELSE [b EXCEPT !.calls[k].status = "failed",
                   !.calls[k].remoteError = error, !.calls[k].raised = error]

\* A callTool that records the scopes of every result that discloses some.
callToolLastScopesWin(b, k, out, result, error) ==
    IF out = "ok"
    THEN [b EXCEPT
            !.calls[k].status = "ok",
            !.calls[k].remote = result,
            !.calls[k].result = result,
            !.tokenExchangeTime = IF b.calls[k].needsTokenExchange
                                  THEN Elapsed(k) ELSE @,
            !.exchangedScopes =
                IF result.text = "json" /\ result.exchangedScopes # "none"
                THEN result.exchangedScopes ELSE @]
    ELSE [b EXCEPT !.calls[k].status = "failed",
                   !.calls[k].remoteError = error,
                   !.calls[k].raised = error]

\* A callTool that parses the text of the result outside a try block: a
\* text that is not JSON makes the call fail.
callToolParseThrows(b, k, out, result, error) ==
    IF out = "ok" /\ (b.exchangedScopes # "null" \/ result.text # "not json")
    THEN [b EXCEPT
            !.calls[k].status = "ok",
            !.calls[k].remote = result,
            !.calls[k].result = result,
            !.tokenExchangeTime = IF b.calls[k].needsTokenExchange
                                  THEN Elapsed(k) ELSE @,
            !.exchangedScopes =
                IF /\ @ = "null"
                   /\ result.text = "json"
                   /\ result.exchangedScopes # "none"
                THEN result.exchangedScopes ELSE @]
    ELSE IF out = "ok"
    THEN [b EXCEPT !.calls[k].status = "failed",
                   !.calls[k].remote = result,
                   !.calls[k].raised = "SyntaxError"]
    ELSE [b EXCEPT !.calls[k].status = "failed",
                   !.calls[k].remoteError = error,
                   !.calls[k].raised = error]

\* callTool after client.callTool has settled.  On success the time of the
\* token exchange and the disclosed scopes are recorded and the result is
\* returned; on failure the error is logged and thrown again.
callToolSettled(b, k, out, result, error) ==
    IF out = "ok"
    THEN [b EXCEPT
            !.calls[k].status = "ok",
            !.calls[k].remote = result,
            !.calls[k].result = result,
            !.tokenExchangeTime = IF b.calls[k].needsTokenExchange
                                  THEN Elapsed(k) ELSE @,
            !.exchangedScopes =
                IF /\ @ = "null"
                   /\ result.text = "json"
                   /\ result.exchangedScopes # "none"
                THEN result.exchangedScopes ELSE @]
    ELSE [b EXCEPT !.calls[k].status = "failed",
                   !.calls[k].remoteError = error,
                   !.calls[k].raised = error]

\* The agent calls a tool of the bridge.
CallTool ==
    /\ bridge.state = "connected"
    /\ Len(bridge.calls) < MaxCalls
    /\ \E i \in 1..Len(bridge.tools) :
          bridge' = callTool(bridge, bridge.tools[i])
    /\ UNCHANGED <<norm, claim, authEnabled, reqs, chat, tool, peer>>

\* The remote call of a pending tool call resolves or rejects; a call that
\* was not sent can only reject.
CallToolSettles ==
    /\ \E k \in 1..Len(bridge.calls) :
         /\ bridge.calls[k].status = "pending"
         /\ \/ /\ bridge.calls[k].sent
               /\ \E result \in RemoteResults :
                     bridge' = callToolSettled(bridge, k, "ok", result, "none")
            \/ \E error \in RemoteErrors :
                  bridge' = callToolSettled(bridge, k, "fail", NoResult, error)
    /\ UNCHANGED <<norm, claim, authEnabled, reqs, chat, tool, peer>>

\* A caller builds a bridge.
CreateMCPClient ==
    /\ bridge.state = "none"
    /\ \E accessToken \in BridgeCredentials, out \in CreateOutcomes,
          cOut \in CloseOutcomes, tOut \in CloseOutcomes :
         \E cNew \in CloseStatuses("open", cOut),
            tNew \in CloseStatuses("open", tOut) :
            bridge' = createMCPClient(accessToken, out, cNew, tNew)
    /\ UNCHANGED <<norm, claim, authEnabled, reqs, chat, tool, peer>>

\* A getMetadata that asks the tool server for its tools again.
getMetadataRediscovers(b) ==
    [b EXCEPT !.metadata = [returned |-> TRUE,
                            exchangedScopes |-> b.exchangedScopes,
                            tokenExchangeTime |-> b.tokenExchangeTime],
              !.outbound = Append(@, Outbound("tools/list", b.authProvider)),
              !.tools = <<>>]

\* A getMetadata over scopes and time kept in one place for every bridge of
\* the process: it gives what the bridge built last has recorded.
getMetadataOfProcess(b) ==
    [b EXCEPT !.metadata = [returned |-> TRUE,
                            exchangedScopes |-> peer.exchangedScopes,
                            tokenExchangeTime |-> peer.tokenExchangeTime]]

\* getMetadata(): the recorded scopes and time, as they are at the call.
getMetadata(b) ==
    [b EXCEPT !.metadata = [returned |-> TRUE,
                            exchangedScopes |-> b.exchangedScopes,
                            tokenExchangeTime |-> b.tokenExchangeTime]]

\* The owner of a bridge reads its metadata, as handleChat does, once, when
\* the agent has run and the tool calls it made have settled.
GetMetadata ==
    /\ bridge.state = "connected"
    /\ ~bridge.metadata.returned
    /\ \A k \in 1..Len(bridge.calls) : bridge.calls[k].status # "pending"
    /\ bridge' = getMetadata(bridge)
    /\ UNCHANGED <<norm, claim, authEnabled, reqs, chat, tool, peer>>

\* A caller calls createMCPClient: the function is entered and runs up to the
\* end of its try block.
CreateMCPClientEnters ==
    /\ bridge.state = "none"
    /\ \E accessToken \in BridgeCredentials :
          bridge' = [BridgeIdle EXCEPT !.state = "connecting",
                                       !.accessToken = accessToken]
    /\ UNCHANGED <<norm, claim, authEnabled, reqs, chat, tool, peer>>

\* The try block of createMCPClient ends: the bridge object is returned, or
\* the catch block closes what was built and throws.
CreateMCPClientSettles ==
    /\ bridge.state = "connecting"
    /\ \E out \in CreateOutcomes, cOut \in CloseOutcomes, tOut \in CloseOutcomes :
         \E cNew \in CloseStatuses("open", cOut),
            tNew \in CloseStatuses("open", tOut) :
            bridge' = createMCPClient(bridge.accessToken, out, cNew, tNew)
    /\ UNCHANGED <<norm, claim, authEnabled, reqs, chat, tool, peer>>

\* The owner of a bridge calls its cleanup(); it can do so again.
Cleanup ==
    /\ bridge.state = "connected"
    /\ bridge.cleanupCalls < MaxCleanupCalls
    /\ \E cOut \in CloseOutcomes, tOut \in CloseOutcomes :
         \E cNew \in CloseStatuses(bridge.client, cOut),
            tNew \in CloseStatuses(bridge.transport, tOut) :
            bridge' = cleanup(bridge, cOut, tOut, cNew, tNew)
    /\ UNCHANGED <<norm, claim, authEnabled, reqs, chat, tool, peer>>

\* Bound of the tool calls the first of two concurrent requests makes.
MaxOwnedCalls == 1

\* The first of two concurrent requests calls a tool on its bridge.
OwnedCallTool ==
    /\ Len(bridge.calls) < MaxOwnedCalls
    /\ CallTool

\* The second request builds its bridge: its own call of createMCPClient.
PeerCreateMCPClient ==
    /\ peer.state = "none"
    /\ \E accessToken \in {"null", "tokP"}, out \in CreateOutcomes,
          cOut \in CloseOutcomes, tOut \in CloseOutcomes :
         \E cNew \in CloseStatuses("open", cOut),
            tNew \in CloseStatuses("open", tOut) :
            peer' = createMCPClient(accessToken, out, cNew, tNew)
    /\ UNCHANGED <<norm, claim, authEnabled, reqs, bridge, chat, tool>>

\* The second request calls a tool on its bridge; it makes one call.
PeerCallTool ==
    /\ peer.state = "connected"
    /\ peer.calls = <<>>
    /\ \E i \in 1..Len(peer.tools) : peer' = callTool(peer, peer.tools[i])
    /\ UNCHANGED <<norm, claim, authEnabled, reqs, bridge, chat, tool>>

\* A pending tool call of the second request settles.
PeerCallToolSettles ==
    /\ \E k \in 1..Len(peer.calls) :
         /\ peer.calls[k].status = "pending"
         /\ \/ /\ peer.calls[k].sent
               /\ \E result \in RemoteResults :
                     peer' = callToolSettled(peer, k, "ok", result, "none")
            \/ \E error \in RemoteErrors :
                  peer' = callToolSettled(peer, k, "fail", NoResult, error)
    /\ UNCHANGED <<norm, claim, authEnabled, reqs, bridge, chat, tool>>

\* The second request reads the metadata of its bridge.
PeerGetMetadata ==
    /\ peer.state = "connected"
    /\ ~peer.metadata.returned
    /\ \A k \in 1..Len(peer.calls) : peer.calls[k].status # "pending"
    /\ peer' = getMetadata(peer)
    /\ UNCHANGED <<norm, claim, authEnabled, reqs, bridge, chat, tool>>

-----------------------------------------------------------------------------
(* Chat endpoint: getAuth and handleChat of the agent.                     *)

\* env.MCP_AUTH0_AUDIENCE
MCP_AUTH0_AUDIENCE == "mcp-audience"

\* A token set of the session: its audience (a string or an array of
\* strings) and its access token.
TokenSet(audience, accessToken) ==
    [audience |-> audience, accessToken |-> accessToken]

McpTokenSet == TokenSet([t |-> "string", v |-> MCP_AUTH0_AUDIENCE], "tokM")
OtherTokenSet == TokenSet([t |-> "string", v |-> "api-audience"], "tokO")

NoSession == [present |-> FALSE, sub |-> "none", tokenSets |-> <<>>]
Session(tokenSets) == [present |-> TRUE, sub |-> "user1", tokenSets |-> tokenSets]

Sessions ==
    {NoSession, Session(<<>>), Session(<<McpTokenSet>>),
     Session(<<OtherTokenSet>>), Session(<<OtherTokenSet, McpTokenSet>>),
     Session(<<OtherTokenSet,
               TokenSet([t |-> "array", v |-> <<"api-audience", MCP_AUTH0_AUDIENCE>>],
                        "tokL")>>)}

HasMcpAudience(tokenSet) ==
    \/ tokenSet.audience.t = "string" /\ tokenSet.audience.v = MCP_AUTH0_AUDIENCE
    \/ tokenSet.audience.t = "array"
         /\ \E i \in 1..Len(tokenSet.audience.v) :
               tokenSet.audience.v[i] = MCP_AUTH0_AUDIENCE

\* A find that takes the first token set of the session, whatever its
\* audience.
FindFirstTokenSet(tokenSets, i) ==
    IF i > Len(tokenSets) THEN 0 ELSE i

\* session.tokenSets.find(...): the index of the first token set with the MCP
\* audience, 0 when there is none.
RECURSIVE FindMcpTokenSet(_, _)
FindMcpTokenSet(tokenSets, i) ==
    IF i > Len(tokenSets) THEN 0
    ELSE IF HasMcpAudience(tokenSets[i]) THEN i
    ELSE FindMcpTokenSet(tokenSets, i + 1)

\* getAuth(context) of the agent: identity and access token of the session.
\* "null" stands for null and undefined.
agentGetAuth(session) ==
    IF ~session.present THEN [userId |-> "null", accessToken |-> "null"]
    ELSE LET i == FindMcpTokenSet(session.tokenSets, 1)
         IN  [userId |-> session.sub,
              accessToken |-> IF i = 0 THEN "null"
                              ELSE session.tokenSets[i].accessToken]

\* Response bodies of the chat endpoint.  tokenHint is "absent" in a body
\* without that field.
NoChatResponse ==
    [status |-> 0, error |-> "none", text |-> <<>>, tokenHint |-> "absent"]

ChatError(status, error) ==
    [status |-> status, error |-> error, text |-> <<>>, tokenHint |-> "absent"]

\* The payload of a successful chat: metadata.tokenHint is
\* auth.accessToken || null.
ResponsePayload(responseText, auth) ==
    [status |-> 200, error |-> "none", text |-> responseText,
     tokenHint |-> IF Truthy(auth.accessToken) THEN auth.accessToken ELSE "null"]

ChatIdle ==
    [pc |-> "idle", message |-> "", session |-> NoSession,
     auth |-> [userId |-> "null", accessToken |-> "null"],
     toolsCleanup |-> "noop", toolsCleanupCalls |-> 0, failedStep |-> "none",
     cleanupAfterResponse |-> FALSE,
     responseText |-> <<>>, response |-> NoChatResponse]

ChatUnchanged == UNCHANGED <<norm, claim, authEnabled, reqs, tool, peer>>

\* A handler whose cleanup sits at the end of the try block and not in a
\* finally block: the error path ends the request without it.
CatchBlockThenReturn(c) ==
    [c EXCEPT !.pc = "done",
              !.response = ChatError(500,
                  "Sorry, I encountered an error processing your request.")]

\* The catch block: the error is logged by message and type and a generic
\* 500 body is answered.
CatchBlock(c) ==
    [c EXCEPT !.pc = "finally",
              !.response = ChatError(500,
                  "Sorry, I encountered an error processing your request.")]

\* An awaited step of the try block threw: the catch block runs.  failedStep
\* keeps the step that threw.
Thrown(c) == [CatchBlock(c) EXCEPT !.failedStep = c.pc]

\* const { message } = await context.req.json(), and the two early returns.
handleChatParse ==
    /\ chat.pc = "start"
    /\ \E body \in {"throw", "", "__CHECK_USER__", "hi"} :
         chat' =
           IF body = "throw" THEN Thrown(chat)
           ELSE IF body = ""
           THEN [chat EXCEPT !.pc = "finally", !.message = body,
                             !.response = ChatError(400, "Message is required")]
           ELSE IF body = "__CHECK_USER__"
           THEN [chat EXCEPT !.pc = "userCheck", !.message = body]
           ELSE [chat EXCEPT !.pc = "getAuth", !.message = body]
    /\ UNCHANGED bridge
    /\ ChatUnchanged

\* return handleUserCheck(context): the user context, without AI processing.
handleUserCheck ==
    /\ chat.pc = "userCheck"
    /\ chat' = [chat EXCEPT !.pc = "finally",
                            !.auth = agentGetAuth(chat.session),
                            !.response = [NoChatResponse EXCEPT !.status = 200]]
    /\ UNCHANGED bridge
    /\ ChatUnchanged

\* const auth = await getAuth(context); reading the session can fail.
handleChatGetAuth ==
    /\ chat.pc = "getAuth"
    /\ \E outcome \in {"ok", "throw"} :
         chat' = IF outcome = "throw" THEN Thrown(chat)
                 ELSE [chat EXCEPT !.pc = "createTools",
                                   !.auth = agentGetAuth(chat.session)]
    /\ UNCHANGED bridge
    /\ ChatUnchanged

\* A createTools that lets the failure of the connection leave it.
createToolsRethrows(c, b) ==
    IF b.state = "connected"
    THEN [c EXCEPT !.pc = "memoryAddUser", !.toolsCleanup = "bridge"]
    ELSE Thrown(c)

\* createTools(accessToken) builds the tool set: it connects a bridge with
\* createMCPClient and returns the bridge's cleanup, or, when the connection
\* fails, returns the local tools alone; it can also fail as a whole.
createTools(c, b) ==
    IF b.state = "connected"
    THEN [c EXCEPT !.pc = "memoryAddUser", !.toolsCleanup = "bridge"]
    ELSE [c EXCEPT !.pc = "memoryAddUser", !.toolsCleanup = "local"]

\* const { tools, metadata, cleanup } = await createTools(auth.accessToken);
\* toolsCleanup = cleanup.
handleChatCreateTools ==
    /\ chat.pc = "createTools"
    /\ \/ /\ chat' = Thrown(chat)
          /\ UNCHANGED bridge
       \/ \E out \in CreateOutcomes,
             cOut \in CloseOutcomes, tOut \in CloseOutcomes :
            \E cNew \in CloseStatuses("open", cOut),
               tNew \in CloseStatuses("open", tOut) :
               /\ bridge' = createMCPClient(chat.auth.accessToken, out, cNew, tNew)
               /\ chat' = createTools(chat, bridge')
    /\ ChatUnchanged

\* await memory.add({ role: "user", ... })
handleChatMemoryAddUser ==
    /\ chat.pc = "memoryAddUser"
    /\ \E outcome \in {"ok", "throw"} :
         chat' = IF outcome = "throw" THEN Thrown(chat)
                 ELSE [chat EXCEPT !.pc = "agentRun"]
    /\ UNCHANGED bridge
    /\ ChatUnchanged

\* const response = await requestAgent.run(...); extractResponseText(response)
handleChatAgentRun ==
    /\ chat.pc = "agentRun"
    /\ \/ chat' = Thrown(chat)
       \/ \E content \in {Hello, HelloWorld \o HelloWorld, <<" ", "o", "k", " ">>} :
            chat' = [chat EXCEPT !.pc = "memoryAddAssistant",
                                 !.responseText = extractResponseText(content)]
    /\ UNCHANGED bridge
    /\ ChatUnchanged

\* await memory.add({ role: "assistant", ... }), then the response payload is
\* built and returned.
handleChatRespond ==
    /\ chat.pc = "memoryAddAssistant"
    /\ \E outcome \in {"ok", "throw"} :
         chat' = IF outcome = "throw" THEN Thrown(chat)
                 ELSE [chat EXCEPT !.pc = "finally",
                         !.response = ResponsePayload(chat.responseText, chat.auth)]
    /\ UNCHANGED bridge
    /\ ChatUnchanged

\* finally { await toolsCleanup(); }
handleChatFinally ==
    /\ chat.pc = "finally"
    /\ chat' = [chat EXCEPT !.pc = "done",
                            !.toolsCleanupCalls = @ + 1,
                            !.cleanupAfterResponse = (chat.response.status # 0)]
    /\ IF chat.toolsCleanup = "bridge"
       THEN \E cOut \in CloseOutcomes, tOut \in CloseOutcomes :
              \E cNew \in CloseStatuses(bridge.client, cOut),
                 tNew \in CloseStatuses(bridge.transport, tOut) :
                 bridge' = cleanup(bridge, cOut, tOut, cNew, tNew)
       ELSE UNCHANGED bridge
    /\ ChatUnchanged

-----------------------------------------------------------------------------
(* Tool registry and dispatcher: the server.tool declarations of the tool  *)
(* server, createSession and formatResult.                                 *)

\* JSON values other than strings and arrays.
Num(n) == [t |-> "number", v |-> n]
Null == [t |-> "null", v |-> <<>>]
Bool(b) == [t |-> "boolean", v |-> b]
\* An object: its keys and values in insertion order.
Obj(pairs) == [t |-> "object", v |-> pairs]

\* JavaScript truthiness, as the || of the handlers tests it.
TruthyValue(x) ==
    CASE x.t = "absent"  -> FALSE
      [] x.t = "null"    -> FALSE
      [] x.t = "string"  -> Len(x.v) > 0
      [] x.t = "number"  -> x.v # 0
      [] x.t = "boolean" -> x.v
      [] OTHER           -> TRUE

\* args.k: the value of a key, undefined when the object has no such key.
Arg(args, k) == IF k \in DOMAIN args THEN args[k] ELSE Absent

\* The validators of the argument schemas.  max < 0 stands for no maximum.
ZString(min, optional) ==
    [kind |-> "string", min |-> min, max |-> -1, values |-> {},
     optional |-> optional, default |-> Absent]
ZDateTime ==
    [kind |-> "datetime", min |-> 0, max |-> -1, values |-> {},
     optional |-> TRUE, default |-> Absent]
ZEnum(values, optional) ==
    [kind |-> "enum", min |-> 0, max |-> -1, values |-> values,
     optional |-> optional, default |-> Absent]
ZInt(min, max, default) ==
    [kind |-> "int", min |-> min, max |-> max, values |-> {},
     optional |-> FALSE, default |-> Num(default)]
ZStrings(optional, default) ==
    [kind |-> "strings", min |-> 0, max |-> -1, values |-> {},
     optional |-> optional, default |-> default]

Digits == {"0", "1", "2", "3", "4", "5", "6", "7", "8", "9"}

\* z.string().datetime(): an ISO 8601 date and time in UTC,
\* YYYY-MM-DDThh:mm:ssZ.
IsDateTime(s) ==
    /\ Len(s) = 20
    /\ s[5] = "-" /\ s[8] = "-" /\ s[11] = "T"
    /\ s[14] = ":" /\ s[17] = ":" /\ s[20] = "Z"
    /\ \A i \in {1, 2, 3, 4, 6, 7, 9, 10, 12, 13, 15, 16, 18, 19} : s[i] \in Digits

StatusValues ==
    {<<"t","o","d","o">>, <<"i","n","_","p","r","o","g","r","e","s","s">>,
     <<"d","o","n","e">>}

ToolNames ==
    {"tv_create_project", "tv_list_projects", "tv_create_task", "tv_get_task",
     "tv_list_tasks", "tv_update_task_status", "tv_assign_task",
     "tv_comment_task", "tv_tag_task", "tv_due_soon", "tv_delete_project",
     "tv_delete_task"}

\* The argument schema each tool is registered with.
ToolSchema(name) ==
    CASE name = "tv_create_project" ->
           [name |-> ZString(1, FALSE), description |-> ZString(0, TRUE)]
      [] name = "tv_list_projects" ->
           [q |-> ZString(0, TRUE)]
      [] name = "tv_create_task" ->
           [projectId |-> ZString(1, FALSE), title |-> ZString(1, TRUE),
            name |-> ZString(1, TRUE), description |-> ZString(0, TRUE),
            ownerId |-> ZString(1, TRUE), dueAt |-> ZDateTime,
            tags |-> ZStrings(FALSE, Arr(<<>>))]
      [] name = "tv_get_task" ->
           [taskId |-> ZString(1, FALSE)]
      [] name = "tv_list_tasks" ->
           [projectId |-> ZString(1, TRUE), ownerId |-> ZString(1, TRUE),
            status |-> ZEnum(StatusValues, TRUE), tag |-> ZString(0, TRUE),
            q |-> ZString(0, TRUE), dueBefore |-> ZDateTime,
            dueAfter |-> ZDateTime, limit |-> ZInt(1, 500, 100),
            offset |-> ZInt(0, -1, 0)]
      [] name = "tv_update_task_status" ->
           [taskId |-> ZString(1, FALSE), status |-> ZEnum(StatusValues, FALSE)]
      [] name = "tv_assign_task" ->
           [taskId |-> ZString(1, FALSE), ownerId |-> ZString(1, FALSE)]
      [] name = "tv_comment_task" ->
           [taskId |-> ZString(1, FALSE), text |-> ZString(1, FALSE)]
      [] name = "tv_tag_task" ->
           [taskId |-> ZString(1, FALSE), add |-> ZStrings(TRUE, Absent),
            remove |-> ZStrings(TRUE, Absent)]
      [] name = "tv_due_soon" ->
           [days |-> ZInt(0, 90, 7), ownerId |-> ZString(1, TRUE)]
      [] name = "tv_delete_project" ->
           [projectId |-> ZString(1, FALSE)]
      [] name = "tv_delete_task" ->
           [taskId |-> ZString(1, FALSE)]

\* A validator that checks only that a required value is there.
AcceptsAnyValue(z, x) ==
    x.t # "absent" \/ z.optional \/ z.default.t # "absent"

\* Does a validator accept a value (undefined when the key is missing)?
Accepts(z, x) ==
    IF x.t = "absent" THEN z.optional \/ z.default.t # "absent"
    ELSE CASE z.kind = "string"   -> x.t = "string" /\ Len(x.v) >= z.min
           [] z.kind = "datetime" -> x.t = "string" /\ IsDateTime(x.v)
           [] z.kind = "enum"     -> x.t = "string" /\ x.v \in z.values
           [] z.kind = "int"      -> /\ x.t = "number"
                                     /\ x.v >= z.min
                                     /\ (z.max < 0 \/ x.v <= z.max)
           [] z.kind = "strings"  -> /\ x.t = "array"
                                     /\ \A i \in 1..Len(x.v) : x.v[i].t = "string"

\* The registry validates the raw arguments against the schema before the
\* handler runs.
SchemaAccepts(schema, raw) ==
    \A k \in DOMAIN schema : Accepts(schema[k], Arg(raw, k))

\* The arguments the handler receives: the keys of the schema that were
\* supplied or have a default; keys the schema does not name are dropped.
ParsedArgs(schema, raw) ==
    [k \in {f \in DOMAIN schema :
              Arg(raw, f).t # "absent" \/ schema[f].default.t # "absent"} |->
        IF Arg(raw, k).t # "absent" THEN raw[k] ELSE schema[k].default]

\* extra.authInfo of a tool call: absent, or the verified token with the
\* optional fields extra and scopes.
NoAuthInfo ==
    [present |-> FALSE, token |-> "none",
     extra |-> [present |-> FALSE, sub |-> Absent],
     scopes |-> [present |-> FALSE, v |-> <<>>], clientId |-> "none"]

AuthInfo(token, extra, scopes, clientId) ==
    [present |-> TRUE, token |-> token, extra |-> extra, scopes |-> scopes,
     clientId |-> clientId]

AuthInfos ==
    {NoAuthInfo,
     AuthInfo("tokA", [present |-> TRUE, sub |-> Str(<<"u", "1">>)],
              [present |-> TRUE, v |-> <<"tasks:write">>], "clientA"),
     AuthInfo("tokB", [present |-> FALSE, sub |-> Absent],
              [present |-> FALSE, v |-> <<>>], "clientB"),
     AuthInfo("tokC", [present |-> TRUE, sub |-> Absent],
              [present |-> TRUE, v |-> <<>>], "clientA")}

\* The null session of a call without auth context.
NullSession ==
    [present |-> FALSE, token |-> "none", extra |-> [sub |-> Absent],
     scopes |-> <<>>, clientId |-> "none"]

\* createSession(extra)
createSession(authInfo) ==
    IF authInfo.present
    THEN [present |-> TRUE, token |-> authInfo.token,
          extra |-> IF authInfo.extra.present
                    THEN [sub |-> authInfo.extra.sub] ELSE [sub |-> Absent],
          scopes |-> IF authInfo.scopes.present THEN authInfo.scopes.v ELSE <<>>,
          clientId |-> authInfo.clientId]
    ELSE NullSession

DefaultUser == <<"d","e","f","a","u","l","t","-","u","s","e","r">>

\* A task payload built without removing the alias.
taskDataKeepsName(args, session) ==
    [k \in DOMAIN args \cup {"title", "ownerId"} |->
        IF k = "title"
        THEN (IF TruthyValue(Arg(args, "title")) THEN args.title
              ELSE Arg(args, "name"))
        ELSE IF k = "ownerId"
        THEN (IF TruthyValue(Arg(args, "ownerId")) THEN args.ownerId
              ELSE IF TruthyValue(session.extra.sub) THEN session.extra.sub
              ELSE Str(DefaultUser))
        ELSE args[k]]

\* taskData of tv_create_task: the arguments, with title = args.title ||
\* args.name and ownerId = args.ownerId || session?.extra?.sub ||
\* 'default-user', and then without the key name.
taskData(args, session) ==
    LET title   == IF TruthyValue(Arg(args, "title")) THEN args.title
                   ELSE Arg(args, "name")
        ownerId == IF TruthyValue(Arg(args, "ownerId")) THEN args.ownerId
                   ELSE IF TruthyValue(session.extra.sub) THEN session.extra.sub
                   ELSE Str(DefaultUser)
        spread  == [k \in DOMAIN args \cup {"title", "ownerId"} |->
                      IF k = "title" THEN title
                      ELSE IF k = "ownerId" THEN ownerId
                      ELSE args[k]]
    IN  [k \in (DOMAIN spread) \ {"name"} |-> spread[k]]

\* A forwarding call callApi(path, {method, body, session}).  The path is
\* kept as its route, the argument placed in it and the arguments of its
\* query string.
NoQuery == <<>>
NoBody == [present |-> FALSE, v |-> <<>>]
Body(b) == [present |-> TRUE, v |-> b]

\* The credential callApi sends for a session: the session's token as a
\* Bearer token, and none for the null session.
Credential(session) ==
    Authorization(IF session.present THEN session.token ELSE "none")

ApiCall(method, route, id, query, body, session) ==
    [method |-> method, route |-> route, id |-> id, query |-> query,
     body |-> body, session |-> session, authorization |-> Credential(session)]

\* The forwarding call each handler makes.
Handler(name, args, session) ==
    CASE name = "tv_create_project" ->
           ApiCall("POST", "/projects", Absent, NoQuery, Body(args), session)
      [] name = "tv_list_projects" ->
           IF TruthyValue(Arg(args, "q"))
           THEN ApiCall("GET", "/projects?q=", args.q, NoQuery, NoBody, session)
           ELSE ApiCall("GET", "/projects", Absent, NoQuery, NoBody, session)
      [] name = "tv_create_task" ->
           ApiCall("POST", "/tasks", Absent, NoQuery,
                   Body(taskData(args, session)), session)
      [] name = "tv_get_task" ->
           ApiCall("GET", "/tasks/:id", args.taskId, NoQuery, NoBody, session)
      [] name = "tv_list_tasks" ->
           ApiCall("GET", "/tasks?", Absent, args, NoBody, session)
      [] name = "tv_update_task_status" ->
           ApiCall("PATCH", "/tasks/:id/status", args.taskId, NoQuery,
                   Body([status |-> args.status]), session)
      [] name = "tv_assign_task" ->
           ApiCall("PATCH", "/tasks/:id/assign", args.taskId, NoQuery,
                   Body([ownerId |-> args.ownerId]), session)
      [] name = "tv_comment_task" ->
           ApiCall("POST", "/tasks/:id/comments", args.taskId, NoQuery,
                   Body([text |-> args.text]), session)
      [] name = "tv_tag_task" ->
           ApiCall("PATCH", "/tasks/:id/tags", args.taskId, NoQuery,
                   Body([add |-> Arg(args, "add"),
                         remove |-> Arg(args, "remove")]), session)
      [] name = "tv_due_soon" ->
           ApiCall("GET", "/tasks-due-soon?", Absent, args, NoBody, session)
      [] name = "tv_delete_project" ->
           ApiCall("DELETE", "/projects/:id", args.projectId, NoQuery, NoBody,
                   session)
      [] name = "tv_delete_task" ->
           ApiCall("DELETE", "/tasks/:id", args.taskId, NoQuery, NoBody, session)

\* JSON.stringify(data, null, 2).
Spaces(n) == [i \in 1..n |-> " "]

NewLine == "\n"

\* The characters of a string inside its quotes: the quote, the backslash and
\* the line feed are escaped.
RECURSIVE EscapeChars(_)
EscapeChars(s) ==
    IF s = <<>> THEN <<>>
    ELSE (CASE Head(s) = "\"" -> <<"\\", "\"">>
            [] Head(s) = "\\" -> <<"\\", "\\">>
            [] Head(s) = NewLine -> <<"\\", "n">>
            [] OTHER -> <<Head(s)>>) \o EscapeChars(Tail(s))

QuoteString(s) == <<"\"">> \o EscapeChars(s) \o <<"\"">>

DigitChar(d) ==
    CASE d = 0 -> "0" [] d = 1 -> "1" [] d = 2 -> "2" [] d = 3 -> "3"
      [] d = 4 -> "4" [] d = 5 -> "5" [] d = 6 -> "6" [] d = 7 -> "7"
      [] d = 8 -> "8" [] d = 9 -> "9"

RECURSIVE NaturalText(_)
NaturalText(n) ==
    IF n < 10 THEN <<DigitChar(n)>>
    ELSE NaturalText(n \div 10) \o <<DigitChar(n % 10)>>

NumberText(n) == IF n < 0 THEN <<"-">> \o NaturalText(0 - n) ELSE NaturalText(n)

\* A serialization that indents by the nesting depth alone, one space a level.
RECURSIVE StringifyOneSpace(_, _)
RECURSIVE MembersOneSpace(_, _, _, _)
MembersOneSpace(x, i, indent, first) ==
    IF i > Len(x.v) THEN <<>>
    ELSE LET item == IF x.t = "array" THEN x.v[i] ELSE x.v[i][2]
             text == IF x.t = "array"
                     THEN StringifyOneSpace(item, indent)
                     ELSE QuoteString(x.v[i][1]) \o <<":", " ">>
                            \o StringifyOneSpace(item, indent)
         IN  (IF first THEN <<>> ELSE <<",">>)
               \o <<NewLine>> \o Spaces(indent) \o text
               \o MembersOneSpace(x, i + 1, indent, FALSE)

StringifyOneSpace(x, indent) ==
    CASE x.t = "null"    -> <<"n", "u", "l", "l">>
      [] x.t = "boolean" -> IF x.v THEN <<"t", "r", "u", "e">>
                            ELSE <<"f", "a", "l", "s", "e">>
      [] x.t = "number"  -> NumberText(x.v)
      [] x.t = "string"  -> QuoteString(x.v)
      [] x.t = "array"   ->
           IF Len(x.v) = 0 THEN <<"[", "]">>
           ELSE <<"[">> \o MembersOneSpace(x, 1, indent + 1, TRUE)
                  \o <<NewLine>> \o Spaces(indent) \o <<"]">>
      [] x.t = "object"  ->
           IF Len(x.v) = 0 THEN <<"{", "}">>
           ELSE <<"{">> \o MembersOneSpace(x, 1, indent + 1, TRUE)
                  \o <<NewLine>> \o Spaces(indent) \o <<"}">>

\* The text of a value at the given indentation.  The members of a non-empty
\* array or object stand on lines of their own, two spaces deeper, separated
\* by commas; an empty array or object is [] or {}.
RECURSIVE Stringify(_, _)
RECURSIVE Members(_, _, _, _)
Members(x, i, indent, first) ==
    IF i > Len(x.v) THEN <<>>
    ELSE LET item == IF x.t = "array" THEN x.v[i] ELSE x.v[i][2]
             text == IF x.t = "array"
                     THEN Stringify(item, indent)
                     ELSE QuoteString(x.v[i][1]) \o <<":", " ">>
                            \o Stringify(item, indent)
         IN  (IF first THEN <<>> ELSE <<",">>)
               \o <<NewLine>> \o Spaces(indent) \o text
               \o Members(x, i + 1, indent, FALSE)

Stringify(x, indent) ==
    CASE x.t = "null"    -> <<"n", "u", "l", "l">>
      [] x.t = "boolean" -> IF x.v THEN <<"t", "r", "u", "e">>
                            ELSE <<"f", "a", "l", "s", "e">>
      [] x.t = "number"  -> NumberText(x.v)
      [] x.t = "string"  -> QuoteString(x.v)
      [] x.t = "array"   ->
           IF Len(x.v) = 0 THEN <<"[", "]">>
           ELSE <<"[">> \o Members(x, 1, indent + 2, TRUE)
                  \o <<NewLine>> \o Spaces(indent) \o <<"]">>
      [] x.t = "object"  ->
           IF Len(x.v) = 0 THEN <<"{", "}">>
           ELSE <<"{">> \o Members(x, 1, indent + 2, TRUE)
                  \o <<NewLine>> \o Spaces(indent) \o <<"}">>

\* An envelope that serializes with another indentation.
formatResultOneSpace(data) ==
    [content |-> << [type |-> "text", text |-> StringifyOneSpace(data, 0)] >>]

\* formatResult(data)
formatResult(data) ==
    [content |-> << [type |-> "text", text |-> Stringify(data, 0)] >>]

\* Bound of the nesting of the responses of the resource API.
MaxJsonDepth == 2

\* Arrays and objects nested d deep.
RECURSIVE NestedArray(_)
NestedArray(d) ==
    IF d = 0 THEN Arr(<<>>) ELSE Arr(<<NestedArray(d - 1), Num(d)>>)

RECURSIVE NestedObject(_)
NestedObject(d) ==
    IF d = 0 THEN Obj(<<>>)
    ELSE Obj(<< <<<<"i", "d">>, Num(10 * d)>>, <<<<"s", "u", "b">>, NestedObject(d - 1)>> >>)

\* What callApi resolves with: the JSON body of the resource API's response.
ApiResponses ==
    {Null, Bool(TRUE), Num(0), Num(-42), Str(<<>>), Str(<<"o", "k">>),
     Str(<<"a", "\"", "{", "\\", NewLine>>),
     Obj(<< <<<<"e", "r", "r", "o", "r">>, Str(<<"n", "o">>)>> >>),
     Obj(<< <<<<"i", "d">>, Str(<<"t", "1">>)>>,
            <<<<"t", "a", "g", "s">>, Arr(<<Str(<<"a">>), Str(<<"[">>)>>)>>,
            <<<<"d", "o", "n", "e">>, Bool(FALSE)>> >>)}
      \cup {NestedArray(d) : d \in 0..MaxJsonDepth}
      \cup {NestedObject(d) : d \in 0..MaxJsonDepth}

\* The keys an object was given: those whose value is not missing.
Supplied(choice) ==
    [k \in {f \in DOMAIN choice : choice[f].t # "absent"} |-> choice[k]]

TaskId == Str(<<"t", "1">>)

\* The raw arguments the tools are called with, valid and invalid.
RawArgs(name) ==
    CASE name = "tv_create_project" ->
           {Supplied([name |-> n, description |-> d, extra |-> x]) :
              n \in {Absent, Str(<<>>), Str(<<"P">>), Num(1)},
              d \in {Absent, Str(<<"d">>)}, x \in {Absent, Num(1)}}
      [] name = "tv_list_projects" ->
           {Supplied([q |-> q]) : q \in {Absent, Str(<<>>), Str(<<"x">>), Num(1)}}
      [] name = "tv_create_task" ->
           {Supplied([projectId |-> p, title |-> t, name |-> n, ownerId |-> o,
                      dueAt |-> d, tags |-> g]) :
              p \in {Absent, Str(<<"p", "1">>)},
              t \in {Absent, Str(<<>>), Str(<<"T">>)},
              n \in {Absent, Str(<<>>), Str(<<"X">>)},
              o \in {Absent, Str(<<"o", "1">>)},
              d \in {Absent, Str(<<"s", "o", "o", "n">>),
                     Str(<<"2","0","2","6","-","0","1","-","3","1","T",
                           "0","9",":","3","0",":","0","0","Z">>)},
              g \in {Absent, Arr(<<Str(<<"a">>)>>), Arr(<<Num(1)>>)}}
      [] name = "tv_list_tasks" ->
           {Supplied([status |-> s, limit |-> l, offset |-> o, q |-> q]) :
              s \in {Absent, Str(<<"t","o","d","o">>), Str(<<"o", "p", "e", "n">>)},
              l \in {Absent, Num(0), Num(1), Num(500), Num(501)},
              o \in {Absent, Num(-1), Num(0), Num(7)},
              q \in {Absent, Str(<<>>)}}
      [] name = "tv_update_task_status" ->
           {Supplied([taskId |-> i, status |-> s]) :
              i \in {Absent, Str(<<>>), TaskId},
              s \in {Absent, Str(<<"d","o","n","e">>),
                     Str(<<"i","n","_","p","r","o","g","r","e","s","s">>), Str(<<"D", "o", "n", "e">>)}}
      [] name = "tv_assign_task" ->
           {Supplied([taskId |-> i, ownerId |-> o]) :
              i \in {Absent, TaskId}, o \in {Absent, Str(<<>>), Str(<<"o", "1">>)}}
      [] name = "tv_comment_task" ->
           {Supplied([taskId |-> i, text |-> x]) :
              i \in {Absent, TaskId}, x \in {Absent, Str(<<>>), Str(<<"h", "i">>)}}
      [] name = "tv_tag_task" ->
           {Supplied([taskId |-> i, add |-> a, remove |-> r]) :
              i \in {Absent, TaskId},
              a \in {Absent, Arr(<<Str(<<"a">>)>>), Str(<<"a">>)},
              r \in {Absent, Arr(<<>>)}}
      [] name = "tv_due_soon" ->
           {Supplied([days |-> d, ownerId |-> o]) :
              d \in {Absent, Num(-1), Num(0), Num(90), Num(91), Str(<<"7">>)},
              o \in {Absent, Str(<<"o", "1">>)}}
      [] name = "tv_delete_project" ->
           {Supplied([projectId |-> p]) : p \in {Absent, Str(<<>>), Str(<<"p", "1">>)}}
      [] OTHER ->
           {Supplied([taskId |-> i]) : i \in {Absent, Str(<<>>), TaskId, Num(1)}}

ToolIdle ==
    [pc |-> "idle", name |-> "none", raw |-> <<>>, authInfo |-> NoAuthInfo,
     args |-> <<>>, session |-> NullSession, calls |-> <<>>,
     apiOutcome |-> "none", result |-> Absent, envelope |-> [content |-> <<>>], error |-> "none"]

\* Bound of the tool invocations the server handles at the same time.
MaxInvocations == 2

Invocations == 1..MaxInvocations

\* A handler that takes the session from a place all invocations share: the
\* session another invocation has created, when there is one.
toolCallSharedSession(i) ==
    /\ tool[i].pc = "start"
    /\ LET schema == ToolSchema(tool[i].name)
           others == {j \in Invocations : tool[j].pc \notin {"idle", "start", "rejected"}}
       IN  tool' =
             IF ~SchemaAccepts(schema, tool[i].raw)
             THEN [tool EXCEPT ![i].pc = "rejected",
                               ![i].error = "invalid arguments"]
             ELSE LET args    == ParsedArgs(schema, tool[i].raw)
                      session == IF others = {} THEN createSession(tool[i].authInfo)
                                 ELSE tool[CHOOSE j \in others : TRUE].session
                  IN  [tool EXCEPT
                         ![i].pc = "callApi", ![i].args = args,
                         ![i].session = session,
                         ![i].calls = Append(@, Handler(tool[i].name, args, session))]
    /\ UNCHANGED <<norm, claim, authEnabled, reqs, bridge, chat, peer>>

\* Invocation i of a tool: the registry validates the arguments and rejects
\* the call, or runs the handler up to its forwarding call.  The session is a
\* constant of the handler's own activation.
toolCall(i) ==
    /\ tool[i].pc = "start"
    /\ LET schema == ToolSchema(tool[i].name)
       IN  tool' =
             IF ~SchemaAccepts(schema, tool[i].raw)
             THEN [tool EXCEPT ![i].pc = "rejected",
                               ![i].error = "invalid arguments"]
             ELSE LET args    == ParsedArgs(schema, tool[i].raw)
                      session == createSession(tool[i].authInfo)
                  IN  [tool EXCEPT
                         ![i].pc = "callApi", ![i].args = args,
                         ![i].session = session,
                         ![i].calls = Append(@, Handler(tool[i].name, args, session))]
    /\ UNCHANGED <<norm, claim, authEnabled, reqs, bridge, chat, peer>>

\* A handler that catches the failure of its forwarding call and returns an
\* envelope that reports it.
callApiCatchesFailure(i) ==
    /\ tool[i].pc = "callApi"
    /\ \/ \E result \in ApiResponses :
            tool' = [tool EXCEPT ![i].pc = "done", ![i].apiOutcome = "resolved",
                                 ![i].result = result,
                                 ![i].envelope = formatResult(result)]
       \/ tool' = [tool EXCEPT
                     ![i].pc = "done", ![i].apiOutcome = "rejected",
                     ![i].envelope =
                        formatResult(Obj(<< <<<<"e", "r", "r", "o", "r">>,
                                              Str(<<"f", "a", "i", "l", "e", "d">>)>> >>))]
    /\ UNCHANGED <<norm, claim, authEnabled, reqs, bridge, chat, peer>>

\* The forwarding call of invocation i settles.  When it resolves the handler
\* returns the envelope of the response; when it rejects, the await throws
\* and, the handler having no try block, the error leaves the handler.
callApi(i) ==
    /\ tool[i].pc = "callApi"
    /\ \/ \E result \in ApiResponses :
            tool' = [tool EXCEPT ![i].pc = "done", ![i].apiOutcome = "resolved",
                                 ![i].result = result,
                                 ![i].envelope = formatResult(result)]
       \/ tool' = [tool EXCEPT ![i].pc = "failed", ![i].apiOutcome = "rejected",
                                ![i].error = "callApi failed"]
    /\ UNCHANGED <<norm, claim, authEnabled, reqs, bridge, chat, peer>>

-----------------------------------------------------------------------------
(* The specifications.                                                     *)

\* The normalizer is applied to an input, and then to its own output.
InitNorm ==
    /\ norm \in {[NormIdle EXCEPT !.pc = "start", !.input = t] : t \in NormInputs}
    /\ claim = ClaimIdle
    /\ authEnabled = FALSE
    /\ reqs = ReqsIdle
    /\ bridge = BridgeIdle
    /\ chat = ChatIdle
    /\ tool = [i \in Invocations |-> ToolIdle]
    /\ peer = BridgeIdle

Normalize ==
    /\ norm.pc = "start"
    /\ norm' = [norm EXCEPT !.pc = "once",
                            !.out1 = extractResponseText(norm.input),
                            !.tried = TilingCandidates(Trim(norm.input), 1)]
    /\ UNCHANGED <<claim, authEnabled, reqs, bridge, chat, tool, peer>>

NormalizeAgain ==
    /\ norm.pc = "once"
    /\ norm' = [norm EXCEPT !.pc = "twice",
                            !.out2 = extractResponseText(norm.out1)]
    /\ UNCHANGED <<claim, authEnabled, reqs, bridge, chat, tool, peer>>

\* A second call with the input of the first.
NormalizeSame ==
    /\ norm.pc = "once"
    /\ norm' = [norm EXCEPT !.pc = "same",
                            !.same = extractResponseText(norm.input)]
    /\ UNCHANGED <<claim, authEnabled, reqs, bridge, chat, tool, peer>>

NextNorm == Normalize \/ NormalizeAgain \/ NormalizeSame

SpecNorm == InitNorm /\ [][NextNorm]_vars

\* getAuth is applied to the token of a request context.
InitClaims ==
    /\ norm = NormIdle
    /\ claim \in {[ClaimIdle EXCEPT !.pc = "start", !.token = t] : t \in ClaimTokens}
    /\ authEnabled = FALSE
    /\ reqs = ReqsIdle
    /\ bridge = BridgeIdle
    /\ chat = ChatIdle
    /\ tool = [i \in Invocations |-> ToolIdle]
    /\ peer = BridgeIdle

GetAuth ==
    /\ claim.pc = "start"
    /\ claim' = [claim EXCEPT !.pc = "done", !.principal = getAuth(claim.token)]
    /\ UNCHANGED <<norm, authEnabled, reqs, bridge, chat, tool, peer>>

\* A scope gate runs on the same context.
RequireScope ==
    /\ claim.pc = "done"
    /\ \E needed \in {<<>>, <<"a">>, <<"b">>, <<"c">>, <<"a", " ", "b">>} :
          claim' = [claim EXCEPT !.pc = "gated", !.needed = needed,
                                 !.gate = requireScope(needed, claim.token)]
    /\ UNCHANGED <<norm, authEnabled, reqs, bridge, chat, tool, peer>>

NextClaims == GetAuth \/ RequireScope

SpecClaims == InitClaims /\ [][NextClaims]_vars

\* Requests with any headers reach the resource API, with authentication
\* enabled or disabled for the process.
InitAuth ==
    /\ norm = NormIdle
    /\ claim = ClaimIdle
    /\ authEnabled \in BOOLEAN
    /\ reqs \in [Requests -> {NewRequest(h) : h \in Headers}]
    /\ bridge = BridgeIdle
    /\ chat = ChatIdle
    /\ tool = [i \in Invocations |-> ToolIdle]
    /\ peer = BridgeIdle

NextAuth ==
    \E i \in Requests : authMiddleware(i) \/ verifyAccessToken(i) \/ routeHandler(i)

SpecAuth == InitAuth /\ [][NextAuth]_vars

\* A bridge is built and its cleanup is called, any number of times.
InitBridge ==
    /\ norm = NormIdle
    /\ claim = ClaimIdle
    /\ authEnabled = FALSE
    /\ reqs = ReqsIdle
    /\ bridge = BridgeIdle
    /\ chat = ChatIdle
    /\ tool = [i \in Invocations |-> ToolIdle]
    /\ peer = BridgeIdle

NextBridge == CreateMCPClient \/ Cleanup

SpecBridge == InitBridge /\ [][NextBridge]_vars

\* A bridge is built, its owner calls cleanup() and calls tools on it, in any
\* order.
NextClosing == CreateMCPClient \/ Cleanup \/ CallTool \/ CallToolSettles

SpecClosing == InitBridge /\ [][NextClosing]_vars

\* Two chat requests are handled at once: each builds a bridge, calls tools
\* on it and reads its metadata, the steps of the two interleaved.
NextOwnership ==
    \/ CreateMCPClient \/ OwnedCallTool \/ CallToolSettles \/ GetMetadata
    \/ PeerCreateMCPClient \/ PeerCallTool \/ PeerCallToolSettles
    \/ PeerGetMetadata

SpecOwnership == InitBridge /\ [][NextOwnership]_vars

\* A bridge is built and tools are called on it, the calls overlapping in
\* any way.
NextCalls == CreateMCPClient \/ CallTool \/ CallToolSettles

SpecCalls == InitBridge /\ [][NextCalls]_vars

\* The life of one connection: it is built, step by step, and cleaned up.
NextConnection == CreateMCPClientEnters \/ CreateMCPClientSettles \/ Cleanup

SpecConnection == InitBridge /\ [][NextConnection]_vars

\* A bridge is built step by step, tools are called on it and its metadata
\* is read, in any order.
NextDiscovery ==
    \/ CreateMCPClientEnters
    \/ CreateMCPClientSettles
    \/ CallTool
    \/ CallToolSettles
    \/ GetMetadata

SpecDiscovery == InitBridge /\ [][NextDiscovery]_vars

\* One chat request, with any session.
InitChat ==
    /\ norm = NormIdle
    /\ claim = ClaimIdle
    /\ authEnabled = FALSE
    /\ reqs = ReqsIdle
    /\ bridge = BridgeIdle
    /\ chat \in {[ChatIdle EXCEPT !.pc = "start", !.session = s] : s \in Sessions}
    /\ tool = [i \in Invocations |-> ToolIdle]
    /\ peer = BridgeIdle

NextChat ==
    \/ handleChatParse
    \/ handleUserCheck
    \/ handleChatGetAuth
    \/ handleChatCreateTools
    \/ handleChatMemoryAddUser
    \/ handleChatAgentRun
    \/ handleChatRespond
    \/ handleChatFinally

SpecChat == InitChat /\ [][NextChat]_vars

\* One tool invocation, with any tool, arguments and auth context; the other
\* invocations are idle.
InitTools ==
    /\ norm = NormIdle
    /\ claim = ClaimIdle
    /\ authEnabled = FALSE
    /\ reqs = ReqsIdle
    /\ bridge = BridgeIdle
    /\ chat = ChatIdle
    /\ peer = BridgeIdle
    /\ tool \in {[i \in Invocations |->
                     IF i = 1
                     THEN [ToolIdle EXCEPT !.pc = "start", !.name = n[1],
                                           !.raw = n[2], !.authInfo = a]
                     ELSE ToolIdle] :
                   n \in UNION {{<<name, raw>> : raw \in RawArgs(name)} :
                                  name \in ToolNames},
                   a \in AuthInfos}

NextTools == \E i \in Invocations : toolCall(i) \/ callApi(i)

SpecTools == InitTools /\ [][NextTools]_vars

\* Tool invocations that overlap in any way, each with its own auth context.
InitSessions ==
    /\ norm = NormIdle
    /\ claim = ClaimIdle
    /\ authEnabled = FALSE
    /\ reqs = ReqsIdle
    /\ bridge = BridgeIdle
    /\ chat = ChatIdle
    /\ peer = BridgeIdle
    /\ tool \in [Invocations ->
                  {[ToolIdle EXCEPT !.pc = "start",
                                    !.name = "tv_update_task_status",
                                    !.raw = [taskId |-> TaskId, status |-> Str(<<"d","o","n","e">>)],
                                    !.authInfo = a] : a \in AuthInfos}]

SpecSessions == InitSessions /\ [][NextTools]_vars

-----------------------------------------------------------------------------
(* Properties.                                                             *)

Range(seq) == {seq[i] : i \in 1..Len(seq)}

NoDuplicates(seq) ==
    \A i \in 1..Len(seq), j \in 1..Len(seq) : i # j => seq[i] # seq[j]

\* A header that carries no token: absent, empty or blank, or the scheme name
\* alone.
CarriesNoToken(header) ==
    \/ ~header.present
    \/ Trim(header.value) = <<>>
    \/ Trim(header.value) = BearerScheme

\* C1: with authentication enabled, a request whose Authorization header
\* carries no token (absent, empty, or only the Bearer prefix) is answered 401
\* "missing token" with the challenge header, and neither verification nor
\* the downstream handler is ever invoked for it.
C1_MissingTokenRejected ==
    authEnabled =>
      \A i \in Requests :
        CarriesNoToken(reqs[i].header) =>
          /\ reqs[i].verifyCalls = 0
          /\ reqs[i].nextCalls = 0
          /\ reqs[i].handlerRuns = 0
          /\ reqs[i].pc = "done" => reqs[i].response = MissingTokenResponse

\* C2: with authentication enabled, a request whose token fails verification
\* is answered 401 "invalid token" with the challenge header of the
\* missing-token case; verification was attempted exactly once and the
\* downstream handler is never invoked.
C2_InvalidTokenRejected ==
    authEnabled =>
      \A i \in Requests :
        reqs[i].verifyOutcome = "fail" =>
          /\ reqs[i].pc = "done"
          /\ reqs[i].response.status = 401
          /\ reqs[i].response.error = "Unauthorized: Invalid access token"
          /\ reqs[i].response.challenge = MissingTokenResponse.challenge
          /\ reqs[i].response.challenge = Challenge
          /\ reqs[i].verifyCalls = 1
          /\ reqs[i].nextCalls = 0
          /\ reqs[i].handlerRuns = 0

C2_Witness ==
    /\ authEnabled
    /\ \E i \in Requests :
         /\ reqs[i].verifyOutcome = "fail"
         /\ reqs[i].pc = "done"
         /\ reqs[i].accessToken = TokenBad

\* The access tokens the session of the chat request holds.
SessionTokens(session) ==
    {session.tokenSets[i].accessToken : i \in 1..Len(session.tokenSets)}

ChatErrors ==
    {"none", "Message is required",
     "Sorry, I encountered an error processing your request."}

\* C3: no response body of the chat handler, on any path, contains the
\* caller's raw bearer credential or an internal stack trace.
C3_ResponseBodyHidesCredential ==
    /\ chat.response.tokenHint \notin SessionTokens(chat.session)
    /\ chat.response.error \in ChatErrors

\* C4: for a chat request that obtained a bridge, the bridge's cleanup is
\* invoked exactly once, on every exit path, after the response of the
\* request has been determined (and not before the request ends).
C4_CleanupExactlyOnce ==
    /\ chat.pc # "done" => bridge.cleanupCalls = 0 /\ chat.toolsCleanupCalls = 0
    /\ chat.pc = "done" =>
         /\ chat.toolsCleanupCalls = 1
         /\ chat.cleanupAfterResponse
         /\ chat.response.status # 0
         /\ bridge.cleanupCalls = IF chat.toolsCleanup = "bridge" THEN 1 ELSE 0

C4_Witness ==
    /\ chat.pc = "done"
    /\ chat.toolsCleanup = "bridge"
    /\ chat.response.status = 500
    /\ bridge.cleanupCalls = 1

\* C5: cleanup() attempts to close the client and attempts to close the
\* transport independently: in every call both closes are attempted,
\* whatever the outcome of the other.
C5_CleanupClosesBoth ==
    bridge.cleanupCalls > 0 =>
      /\ bridge.lastCleanup.client \in CloseOutcomes
      /\ bridge.lastCleanup.transport \in CloseOutcomes

\* A step that is a call of cleanup().
CleanupStep == bridge'.cleanupCalls = bridge.cleanupCalls + 1

\* C6: cleanup() is idempotent and safe: in any number of calls and any
\* connection state it never raises to its caller, and a second call leaves
\* the connection in the state the first call left it in.
C6_CleanupIdempotent ==
    /\ [](~bridge.cleanupRaised)
    /\ [][(CleanupStep /\ bridge.cleanupCalls >= 1) =>
            /\ bridge'.client = bridge.client
            /\ bridge'.transport = bridge.transport]_vars

\* C7: the normalizer is idempotent: normalizing its output again gives the
\* same output.
C7_NormalizerIdempotent ==
    norm.pc = "twice" => norm.out2 = norm.out1

\* The text T tiles with a unit of length len: every character equals the
\* character one unit length before it.
Tiles(T, len) == \A i \in 1..Len(T) : T[i] = T[((i - 1) % len) + 1]

\* The unit lengths from 1 to L/2 that tile T.
TileLens(T) == {len \in 1..(Len(T) \div 2) : Tiles(T, len)}

Smallest(S) == CHOOSE x \in S : \A y \in S : x <= y

\* C8: when the trimmed input T equals some prefix T[0:len], 1 <= len <= L/2,
\* tiled to its length, the normalizer returns trim(T[0:len]) for the
\* smallest such len; "Hello worldHello world" gives "Hello world", "AAA"
\* gives "A" and "Hello" is returned unchanged.
C8_TilingReturnsSmallestUnit ==
    norm.pc # "start" =>
      LET T == Trim(norm.input)
      IN  /\ TileLens(T) # {} =>
               norm.out1 = Trim(SubSeq(T, 1, Smallest(TileLens(T))))
          /\ norm.input = HelloWorld \o HelloWorld => norm.out1 = HelloWorld
          /\ norm.input = <<"A", "A", "A">> => norm.out1 = <<"A">>
          /\ norm.input = Hello => norm.out1 = Hello

C8_Witness ==
    /\ norm.pc = "once"
    /\ norm.input = <<"a", "b", " ", "a", "b", " ", "a">>
    /\ norm.out1 = <<"a", "b">>

\* C9: when no unit length from 1 to L/2 tiles the trimmed text T, the
\* normalizer returns the trimmed first half of T if and only if L > 50 and
\* the trimmed first half equals the trimmed second half; otherwise T.
C9_HalvesFallback ==
    (norm.pc # "start" /\ TileLens(Trim(norm.input)) = {}) =>
      LET T      == Trim(norm.input)
          L      == Len(T)
          first  == Trim(SubSeq(T, 1, L \div 2))
          second == Trim(SubSeq(T, (L \div 2) + 1, L))
      IN  norm.out1 = IF L > 50 /\ first = second THEN first ELSE T

C9_Witness ==
    /\ norm.pc = "once"
    /\ Len(Trim(norm.input)) > 50
    /\ TileLens(Trim(norm.input)) = {}
    /\ norm.out1 # Trim(norm.input)
    /\ norm.out1 = Word(Len(norm.out1) - 1)

\* The non-empty space-separated tokens of a string: its maximal runs of
\* characters other than the space.
TokensOf(s) ==
    { SubSeq(s, p[1], p[2]) :
        p \in { q \in (1..Len(s)) \X (1..Len(s)) :
                  /\ q[1] <= q[2]
                  /\ \A k \in q[1]..q[2] : s[k] # " "
                  /\ (q[1] = 1 \/ s[q[1] - 1] = " ")
                  /\ (q[2] = Len(s) \/ s[q[2] + 1] = " ") } }

\* The verified payload a context token carries: the token itself, or the
\* payload field of a result object.
VerifiedPayload(token) ==
    IF DOMAIN token = {"present", "payload"} THEN token.payload ELSE token

\* The tokens of a scope claim of any shape.
ScopeTokens(scopeValue) ==
    IF scopeValue.t = "string" THEN TokensOf(scopeValue.v)
    ELSE IF scopeValue.t = "array"
    THEN UNION {TokensOf(scopeValue.v[i]) : i \in 1..Len(scopeValue.v)}
    ELSE {}

PermissionElements(permissionsValue) ==
    IF permissionsValue.t = "array" THEN Range(permissionsValue.v) ELSE {}

\* C10 as claimed: for every payload the scopes equal, as a set, the union of
\* the non-empty space-separated tokens of the scope claim and the elements
\* of the permissions list, without duplicates, and are empty when both
\* claims are absent.
C10_ScopesAreTokenUnion ==
    claim.pc # "start" =>
      /\ Range(claim.principal.scopes)
           = ScopeTokens(VerifiedPayload(claim.token).scope)
               \cup PermissionElements(VerifiedPayload(claim.token).permissions)
      /\ NoDuplicates(claim.principal.scopes)
      /\ (/\ VerifiedPayload(claim.token).scope = Absent
          /\ VerifiedPayload(claim.token).permissions = Absent)
           => claim.principal.scopes = <<>>

\* C10 as amended: the claim holds for a scope claim that is a string or
\* absent; a scope claim that is an array contributes its elements as they
\* are, neither split nor filtered.
C10_ScopesAreTokenUnionOrArrayItems ==
    claim.pc # "start" =>
      /\ Range(claim.principal.scopes)
           = (IF VerifiedPayload(claim.token).scope.t = "array"
              THEN Range(VerifiedPayload(claim.token).scope.v)
              ELSE ScopeTokens(VerifiedPayload(claim.token).scope))
               \cup PermissionElements(VerifiedPayload(claim.token).permissions)
      /\ NoDuplicates(claim.principal.scopes)
      /\ (/\ VerifiedPayload(claim.token).scope = Absent
          /\ VerifiedPayload(claim.token).permissions = Absent)
           => claim.principal.scopes = <<>>

C10_Witness ==
    /\ claim.pc = "done"
    /\ VerifiedPayload(claim.token).scope = Str(<<"a", " ", "b", " ", "a">>)
    /\ VerifiedPayload(claim.token).permissions = Arr(<< <<"b">>, <<"c">> >>)
    /\ Range(claim.principal.scopes) = {<<"a">>, <<"b">>, <<"c">>}
    /\ Len(claim.principal.scopes) = 3

\* C11: the normalized userId is the subject claim when that claim is a
\* non-empty string and "anonymous" otherwise; orgId is the organization
\* claim when it is a non-empty string and the default organization
\* otherwise; without a verified payload userId is "anonymous", orgId is the
\* default and scopes is empty.
C11_UserAndOrgDefaults ==
    claim.pc # "start" =>
      LET payload == VerifiedPayload(claim.token)
          sub     == payload.sub
          org     == payload.org_id
      IN  /\ (sub.t = "string" /\ sub.v # <<>>) => claim.principal.userId = sub.v
          /\ ~(sub.t = "string" /\ sub.v # <<>>)
                => claim.principal.userId = <<"a","n","o","n","y","m","o","u","s">>
          /\ (org.t = "string" /\ org.v # <<>>) => claim.principal.orgId = org.v
          /\ ~(org.t = "string" /\ org.v # <<>>)
                => claim.principal.orgId = API_DEFAULT_ORG
          /\ ~claim.token.present =>
                claim.principal = [userId |-> <<"a","n","o","n","y","m","o","u","s">>,
                                   orgId |-> API_DEFAULT_ORG, scopes |-> <<>>]

C11_Witness ==
    /\ claim.pc = "done"
    /\ claim.token.present
    /\ VerifiedPayload(claim.token).sub = Str(<<>>)
    /\ VerifiedPayload(claim.token).org_id = Str(<<"o", "1">>)
    /\ claim.principal.userId = Anonymous
    /\ claim.principal.orgId = <<"o", "1">>

\* C12: for every request and every required scope S, the scope gate answers
\* 403 with the body "insufficient_scope, need: S" if and only if S is not a
\* member of the principal's normalized scopes; when S is a member it gives
\* no response and the operation proceeds.
C12_ScopeGate ==
    claim.pc = "gated" =>
      LET member == claim.needed \in Range(claim.principal.scopes)
      IN  /\ ~member <=> claim.gate.status = 403
          /\ ~member => claim.gate.error = InsufficientScope \o claim.needed
          /\ member => claim.gate = NoGateResponse

C12_Witness ==
    /\ claim.pc = "gated"
    /\ claim.needed = <<"c">>
    /\ VerifiedPayload(claim.token).scope = Str(<<"a", " ", "b">>)
    /\ VerifiedPayload(claim.token).permissions = Arr(<< <<"c">> >>)
    /\ claim.gate = NoGateResponse

\* The principal of a context without a verified payload.
AnonymousPrincipal ==
    [userId |-> <<"a","n","o","n","y","m","o","u","s">>,
     orgId |-> API_DEFAULT_ORG, scopes |-> <<>>]

\* C13: with authentication disabled the verifier is bypassed: no token
\* verification is ever attempted, no request is answered by a middleware,
\* every request goes to the downstream handler whatever its Authorization
\* header, and every request is the anonymous principal.
C13_AuthDisabledBypass ==
    ~authEnabled =>
      \A i \in Requests :
        /\ reqs[i].verifyCalls = 0
        /\ reqs[i].verifyOutcome = "none"
        /\ reqs[i].auth0Token = NoToken
        /\ reqs[i].response.status # 401
        /\ reqs[i].pc \in {"start", "next", "done"}
        /\ reqs[i].pc # "start" => reqs[i].nextCalls = 1
        /\ reqs[i].pc = "done" =>
              /\ reqs[i].handlerRuns = 1
              /\ reqs[i].principal = AnonymousPrincipal

C13_Witness ==
    /\ ~authEnabled
    /\ \E i \in Requests, j \in Requests :
         /\ reqs[i].header = Header(BearerScheme \o <<" ">> \o TokenBad)
         /\ reqs[j].header = Header(BearerScheme \o <<" ">> \o TokenA)
         /\ reqs[i].pc = "done" /\ reqs[j].pc = "done"
         /\ reqs[i].response.status = 200
         /\ reqs[j].principal = AnonymousPrincipal

\* The payload the identity provider signed into the token of a request.
OwnPayload(r) ==
    Payload(Str(<<"u">> \o Trim(ReplaceBearerPrefix(r.header.value))),
            Absent, Str(<<"a">>), Absent)

\* C14: on successful verification the verified payload is attached to the
\* context of that request before the downstream handler runs, and to that
\* context only: in every interleaving of requests the principal of a request
\* is derived from its own token, never from the payload of another request.
C14_PayloadIsPerRequest ==
    authEnabled =>
      \A i \in Requests :
        /\ reqs[i].auth0Token \in {NoToken, OwnPayload(reqs[i])}
        /\ reqs[i].verifyOutcome = "ok" <=> reqs[i].auth0Token # NoToken
        /\ reqs[i].nextCalls > 0 => reqs[i].auth0Token = OwnPayload(reqs[i])
        /\ reqs[i].handlerRuns > 0 =>
              reqs[i].principal.userId
                 = <<"u">> \o Trim(ReplaceBearerPrefix(reqs[i].header.value))

C14_Witness ==
    /\ authEnabled
    /\ \E i \in Requests, j \in Requests :
         /\ reqs[i].handlerRuns = 1 /\ reqs[j].handlerRuns = 1
         /\ reqs[i].principal.userId = <<"u">> \o TokenA
         /\ reqs[j].principal.userId = <<"u">> \o TokenB

\* C15: the payload a task-creation call forwards to the resource API never
\* has the alias key name; its title is the supplied title when one is given
\* and otherwise the supplied name, so {name: "X"} without a title forwards
\* title "X" and no name.
C15_TaskAliasCanonicalized ==
    \A i \in Invocations :
      LET t == tool[i]
      IN
          (t.name = "tv_create_task" /\ Len(t.calls) > 0) =>
            LET body == t.calls[1].body
            IN  /\ Len(t.calls) = 1
                /\ body.present
                /\ "name" \notin DOMAIN body.v
                /\ "title" \in DOMAIN t.raw => body.v.title = t.raw.title
                /\ ("title" \notin DOMAIN t.raw /\ "name" \in DOMAIN t.raw)
                      => body.v.title = t.raw.name
                /\ (/\ "title" \notin DOMAIN t.raw
                    /\ "name" \in DOMAIN t.raw
                    /\ t.raw.name = Str(<<"X">>)) => body.v.title = Str(<<"X">>)

C15_Witness ==
    \E i \in Invocations :
      LET t == tool[i]
      IN
          /\ t.name = "tv_create_task"
          /\ t.pc = "callApi"
          /\ "title" \notin DOMAIN t.raw
          /\ "name" \in DOMAIN t.raw
          /\ t.raw.name = Str(<<"X">>)
          /\ t.calls[1].body.v.title = Str(<<"X">>)
          /\ "name" \notin DOMAIN t.calls[1].body.v

\* A reader of JSON text: the value at the start of the text and the text
\* that follows it.  White space between the tokens is skipped.
RECURSIVE SkipWhiteSpace(_)
SkipWhiteSpace(s) ==
    IF s # <<>> /\ Head(s) \in {" ", NewLine} THEN SkipWhiteSpace(Tail(s)) ELSE s

RECURSIVE ReadString(_, _)
ReadString(s, acc) ==
    IF Head(s) = "\"" THEN [v |-> acc, rest |-> Tail(s)]
    ELSE IF Head(s) = "\\"
    THEN ReadString(Tail(Tail(s)),
                    Append(acc, IF s[2] = "n" THEN NewLine ELSE s[2]))
    ELSE ReadString(Tail(s), Append(acc, Head(s)))

DigitValue(c) == CHOOSE d \in 0..9 : DigitChar(d) = c

RECURSIVE ReadNatural(_, _)
ReadNatural(s, acc) ==
    IF s # <<>> /\ Head(s) \in Digits
    THEN ReadNatural(Tail(s), 10 * acc + DigitValue(Head(s)))
    ELSE [v |-> acc, rest |-> s]

RECURSIVE ReadValue(_)
RECURSIVE ReadMembers(_, _, _)
ReadMembers(s, closer, acc) ==
    LET t == SkipWhiteSpace(s)
    IN  IF Head(t) = closer
        THEN [v |-> acc, rest |-> Tail(t)]
        ELSE LET u == SkipWhiteSpace(IF Head(t) = "," THEN Tail(t) ELSE t)
             IN  IF closer = "]"
                 THEN LET item == ReadValue(u)
                      IN  ReadMembers(item.rest, closer, Append(acc, item.v))
                 ELSE LET key   == ReadString(Tail(u), <<>>)
                          colon == SkipWhiteSpace(key.rest)
                          item  == ReadValue(Tail(colon))
                      IN  ReadMembers(item.rest, closer,
                                      Append(acc, <<key.v, item.v>>))

ReadValue(s) ==
    LET t == SkipWhiteSpace(s)
    IN  CASE Head(t) = "n" -> [v |-> Null, rest |-> SubSeq(t, 5, Len(t))]
          [] Head(t) = "t" -> [v |-> Bool(TRUE), rest |-> SubSeq(t, 5, Len(t))]
          [] Head(t) = "f" -> [v |-> Bool(FALSE), rest |-> SubSeq(t, 6, Len(t))]
          [] Head(t) = "\"" ->
               LET str == ReadString(Tail(t), <<>>)
               IN  [v |-> Str(str.v), rest |-> str.rest]
          [] Head(t) = "[" ->
               LET items == ReadMembers(Tail(t), "]", <<>>)
               IN  [v |-> Arr(items.v), rest |-> items.rest]
          [] Head(t) = "{" ->
               LET members == ReadMembers(Tail(t), "}", <<>>)
               IN  [v |-> Obj(members.v), rest |-> members.rest]
          [] Head(t) = "-" ->
               LET n == ReadNatural(Tail(t), 0)
               IN  [v |-> Num(0 - n.v), rest |-> n.rest]
          [] OTHER ->
               LET n == ReadNatural(t, 0)
               IN  [v |-> Num(n.v), rest |-> n.rest]

\* For every position of a JSON text: is the character inside a string, and
\* how many arrays and objects are open before it.
RECURSIVE Nesting(_, _, _, _, _)
Nesting(text, i, inString, escaped, depth) ==
    IF i > Len(text) THEN <<>>
    ELSE LET c == text[i]
         IN  << [inString |-> inString, depth |-> depth] >> \o
             (IF inString
              THEN Nesting(text, i + 1, escaped \/ c # "\"",
                           ~escaped /\ c = "\\", depth)
              ELSE Nesting(text, i + 1, c = "\"", FALSE,
                           CASE c \in {"[", "{"} -> depth + 1
                             [] c \in {"]", "}"} -> depth - 1
                             [] OTHER -> depth))

\* The number of spaces that follow position i.
RECURSIVE SpacesAfter(_, _)
SpacesAfter(text, i) ==
    IF i < Len(text) /\ text[i + 1] = " " THEN 1 + SpacesAfter(text, i + 1) ELSE 0

\* The layout of JSON.stringify(value, null, 2): every line after the first
\* is indented by two spaces for each array or object open around it, a
\* closing bracket standing at the depth of its opening line; a comma ends
\* its line, an opening bracket ends its line unless the array or object is
\* empty, and a colon is followed by one space.
IndentedByTwo(text) ==
    LET nest == Nesting(text, 1, FALSE, FALSE, 0)
    IN  \A i \in 1..Len(text) :
          ~nest[i].inString =>
            /\ text[i] = NewLine =>
                 LET n == SpacesAfter(text, i)
                     j == i + n + 1
                 IN  /\ j <= Len(text)
                     /\ n = 2 * (IF text[j] \in {"]", "}"}
                                 THEN nest[j].depth - 1 ELSE nest[j].depth)
            /\ text[i] = " " => text[i - 1] \in {" ", NewLine, ":"}
            /\ text[i] = "," => text[i + 1] = NewLine
            /\ text[i] = "[" => text[i + 1] \in {NewLine, "]"}
            /\ text[i] = "{" => text[i + 1] \in {NewLine, "}"}
            /\ text[i] = ":" => text[i + 1] = " " /\ text[i + 2] # " "
            /\ text[i] \in {"]", "}"} =>
                 \/ text[i - 1] \in {"[", "{"}
                 \/ text[i - 1 - 2 * (nest[i].depth - 1)] = NewLine

\* C20: a tool handler that completes returns an envelope with exactly one
\* content block, of type "text", whose text is the JSON serialization of the
\* resource API's response with 2-space indentation; the envelope is
\* determined by the response.
C20_EnvelopeIsIndentedJson ==
    \A i \in Invocations :
      LET t == tool[i]
      IN
          t.pc = "done" =>
            /\ DOMAIN t.envelope = {"content"}
            /\ Len(t.envelope.content) = 1
            /\ DOMAIN t.envelope.content[1] = {"type", "text"}
            /\ t.envelope.content[1].type = "text"
            /\ ReadValue(t.envelope.content[1].text)
                 = [v |-> t.result, rest |-> <<>>]
            /\ IndentedByTwo(t.envelope.content[1].text)

C20_Witness ==
    \E i \in Invocations :
      LET t == tool[i]
      IN
          /\ t.pc = "done"
          /\ t.name = "tv_create_project"
          /\ t.result = NestedObject(2)
          /\ Len(t.envelope.content) = 1
          /\ SubSeq(t.envelope.content[1].text, 1, 10)
               = <<"{", NewLine, " ", " ", "\"", "i", "d", "\"", ":", " ">>


\* C16: when connecting to the tool server or discovering its tools fails,
\* the chat request is not failed by it: the request goes on with the local
\* tools alone and, no other step failing, answers with a normal response.
C16_ConnectionFailureFallsBack ==
    bridge.state = "failed" =>
      /\ chat.failedStep # "createTools"
      /\ chat.toolsCleanup = "local"
      /\ bridge.cleanupCalls = 0
      /\ (chat.pc = "done" /\ chat.failedStep = "none") =>
            /\ chat.response.status = 200
            /\ chat.response.error = "none"

C16_Witness ==
    /\ bridge.state = "failed"
    /\ bridge.error = "listThrow"
    /\ chat.pc = "done"
    /\ chat.toolsCleanup = "local"
    /\ chat.response.status = 200
    /\ chat.response.text = Hello

\* The requests of one method the bridge has sent.
Sent(method) ==
    {i \in 1..Len(bridge.outbound) : bridge.outbound[i].method = method}

\* The tool calls of the bridge that are in the given state.
CallsIn(status) ==
    {k \in 1..Len(bridge.calls) : bridge.calls[k].status = status}

\* C17: a failed tool call does not halt processing on its bridge: after a
\* callTool has failed the connection stays as it was, every later callTool
\* is still forwarded and can succeed, and each failure is reported for its
\* own call alone; of 3 calls whose 2nd fails, the 1st and 3rd succeed and
\* exactly one failure is reported.
C17_FailedCallDoesNotHalt ==
    bridge.state = "connected" =>
      /\ bridge.client = "open" /\ bridge.transport = "open"
      /\ \A k \in 1..Len(bridge.calls) : bridge.calls[k].sent
      /\ Cardinality(Sent("tools/call")) = Len(bridge.calls)
      /\ {k \in 1..Len(bridge.calls) : bridge.calls[k].raised # "none"}
           = CallsIn("failed")
      /\ CallsIn("ok") \cup CallsIn("failed") \cup CallsIn("pending")
           = 1..Len(bridge.calls)

C17_Witness ==
    /\ Len(bridge.calls) = 3
    /\ bridge.calls[1].status = "ok"
    /\ bridge.calls[2].status = "failed"
    /\ bridge.calls[3].status = "ok"
    /\ bridge.calls[3].sent
    /\ Cardinality({k \in 1..3 : bridge.calls[k].raised # "none"}) = 1

\* C18: when the remote call of a callTool fails, the bridge throws that
\* same failure to its caller and does not retry: one remote call attempt is
\* made per callTool and a failed call returns no result.
C18_FailureRethrownWithoutRetry ==
    /\ \A k \in 1..Len(bridge.calls) :
         /\ bridge.calls[k].attempts = 1
         /\ bridge.calls[k].status = "failed" =>
               /\ bridge.calls[k].raised \in RemoteErrors
               /\ bridge.calls[k].raised = bridge.calls[k].remoteError
               /\ bridge.calls[k].result = NoResult
         /\ bridge.calls[k].status # "failed" => bridge.calls[k].raised = "none"
    /\ Cardinality(Sent("tools/call")) <= Len(bridge.calls)

C18_Witness ==
    /\ Len(bridge.calls) = 2
    /\ bridge.calls[1].status = "failed"
    /\ bridge.calls[1].raised = "timeout"
    /\ bridge.calls[1].attempts = 1
    /\ bridge.calls[2].status = "ok"
    /\ Cardinality(Sent("tools/call")) = 2

\* C19 as claimed: a bridge built with a credential that is not null presents
\* exactly that credential, as a Bearer token, on every request it sends to
\* the tool server; a bridge built without a credential presents none.
C19_NonNullCredentialPresented ==
    bridge.state # "none" =>
      \A i \in 1..Len(bridge.outbound) :
        bridge.outbound[i].authorization =
          IF bridge.accessToken # "null"
          THEN [scheme |-> "Bearer", token |-> bridge.accessToken]
          ELSE NoAuthorization

\* C19 as amended: the credential is presented when it is a non-empty
\* string; a bridge built with null or with the empty string presents none.
C19_NonEmptyCredentialPresented ==
    bridge.state # "none" =>
      \A i \in 1..Len(bridge.outbound) :
        bridge.outbound[i].authorization =
          IF bridge.accessToken \notin {"null", ""}
          THEN [scheme |-> "Bearer", token |-> bridge.accessToken]
          ELSE NoAuthorization

C19_Witness ==
    /\ bridge.accessToken = "tokM"
    /\ Sent("initialize") # {} /\ Sent("tools/list") # {}
    /\ Cardinality(Sent("tools/call")) = 2
    /\ \A i \in 1..Len(bridge.outbound) :
         bridge.outbound[i].authorization = [scheme |-> "Bearer", token |-> "tokM"]


\* C21: the session of a tool invocation is null exactly when the call has no
\* auth context; otherwise it carries the token of that call's own auth
\* context.  Every forwarding call of the handler is given that session and
\* presents its token as the Bearer credential; it never carries the token of
\* another invocation's auth context.
C21_SessionIsPerInvocation ==
    \A i \in Invocations :
      LET t == tool[i]
      IN  t.pc \in {"callApi", "done", "failed"} =>
            /\ ~t.session.present <=> ~t.authInfo.present
            /\ t.authInfo.present => t.session.token = t.authInfo.token
            /\ Len(t.calls) >= 1
            /\ \A k \in 1..Len(t.calls) :
                  LET call == t.calls[k]
                  IN  /\ call.session = t.session
                      /\ call.authorization =
                            IF t.authInfo.present
                            THEN [scheme |-> "Bearer", token |-> t.authInfo.token]
                            ELSE [scheme |-> "none", token |-> "none"]
                      /\ \A j \in Invocations :
                            (tool[j].authInfo.token # t.authInfo.token)
                               => call.session.token # tool[j].authInfo.token

\* Two invocations with different tokens have both made their forwarding call:
\* one has completed and the other is waiting for the resource API.
C21_Witness ==
    \E i, j \in Invocations :
       /\ tool[i].pc = "done" /\ tool[j].pc = "callApi"
       /\ tool[i].authInfo.token = "tokA" /\ tool[j].authInfo.token = "tokB"
       /\ tool[i].calls[1].authorization = [scheme |-> "Bearer", token |-> "tokA"]
       /\ tool[j].calls[1].authorization = [scheme |-> "Bearer", token |-> "tokB"]


\* C22: when the forwarding call of a tool handler fails, the failure leaves
\* the handler: the invocation ends with that error and with no result
\* envelope, and is not reported as completed.
C22_ForwardingFailurePropagates ==
    \A i \in Invocations :
       tool[i].apiOutcome = "rejected" =>
          /\ tool[i].pc = "failed"
          /\ tool[i].error = "callApi failed"
          /\ tool[i].envelope.content = <<>>
          /\ tool[i].result = Absent

C22_Witness ==
    \E i \in Invocations :
       /\ tool[i].name = "tv_delete_project"
       /\ Len(tool[i].calls) = 1
       /\ tool[i].apiOutcome = "rejected"
       /\ tool[i].pc = "failed"


\* The keys each tool requires, and the keys that take a string.
RequiredKeys(name) ==
    CASE name \in {"tv_create_project"} -> {"name"}
      [] name \in {"tv_create_task", "tv_delete_project"} -> {"projectId"}
      [] name \in {"tv_get_task", "tv_tag_task", "tv_delete_task"} -> {"taskId"}
      [] name = "tv_update_task_status" -> {"taskId", "status"}
      [] name = "tv_assign_task" -> {"taskId", "ownerId"}
      [] name = "tv_comment_task" -> {"taskId", "text"}
      [] OTHER -> {}

StringKeys ==
    {"name", "description", "q", "projectId", "title", "ownerId", "taskId",
     "text", "tag", "status", "dueAt", "dueBefore", "dueAfter"}

\* The raw arguments fail the schema of the tool in one of the ways the
\* schemas can fail: a required key is missing, a value has the wrong type or
\* is an empty string where one character is required, a status is outside
\* the enumeration, a number is outside its range.
FailsSchema(name, raw) ==
    LET given(k) == k \in DOMAIN raw
    IN  \/ \E k \in RequiredKeys(name) : ~given(k)
        \/ \E k \in StringKeys : given(k) /\ raw[k].t # "string"
        \/ \E k \in {"add", "remove", "tags"} : given(k) /\ raw[k].t # "array"
        \/ \E k \in RequiredKeys(name) : given(k) /\ raw[k] = Str(<<>>)
        \/ /\ given("status")
           /\ raw.status \notin {Str(<<"t","o","d","o">>), Str(<<"d","o","n","e">>),
                                  Str(<<"i","n","_","p","r","o","g","r","e","s","s">>)}
        \/ given("limit") /\ (raw.limit.t # "number" \/ raw.limit.v \notin 1..500)
        \/ given("offset") /\ (raw.offset.t # "number" \/ raw.offset.v < 0)
        \/ given("days") /\ (raw.days.t # "number" \/ raw.days.v \notin 0..90)

\* C23: a tool invocation whose arguments fail the schema of the tool is
\* rejected with an error and makes no forwarding call to the resource API;
\* no rejected invocation has made a forwarding call.
C23_InvalidArgumentsRejected ==
    \A i \in Invocations :
       LET t == tool[i]
       IN  /\ (t.pc \notin {"idle", "start"} /\ FailsSchema(t.name, t.raw)) =>
                /\ t.pc = "rejected"
                /\ t.error = "invalid arguments"
                /\ t.calls = <<>>
                /\ t.apiOutcome = "none"
                /\ t.envelope.content = <<>>
           /\ t.pc = "rejected" => t.calls = <<>>

\* A search for tasks with a limit above the maximum has been rejected.
C23_Witness ==
    \E i \in Invocations :
       /\ tool[i].name = "tv_list_tasks"
       /\ "limit" \in DOMAIN tool[i].raw
       /\ tool[i].raw.limit.v = 501
       /\ tool[i].pc = "rejected"
       /\ tool[i].calls = <<>>


\* The state of the connection: Connecting while createMCPClient runs, Failed
\* when it threw, Connected while the bridge object's client is open, and
\* Closed once the client is closed.
ConnectionState(b) ==
    CASE b.state = "none"       -> "Disconnected"
      [] b.state = "connecting" -> "Connecting"
      [] b.state = "failed"     -> "Failed"
      [] OTHER -> IF b.client = "closed" THEN "Closed" ELSE "Connected"

ConnectionEdges ==
    {<<"Disconnected", "Connecting">>, <<"Connecting", "Connected">>,
     <<"Connected", "Closed">>, <<"Connecting", "Failed">>}

\* C24: a connection only moves Disconnected -> Connecting -> Connected ->
\* Closed, or Connecting -> Failed; nothing leaves Failed or Closed; and the
\* bridge object is with the caller only when connect and the discovery of
\* the tools have both succeeded.
C24_ConnectionStateMachine ==
    [][ /\ \/ ConnectionState(bridge') = ConnectionState(bridge)
           \/ <<ConnectionState(bridge), ConnectionState(bridge')>> \in ConnectionEdges
        /\ bridge.state = "failed" => bridge'.state = "failed"
        /\ ConnectionState(bridge') \in {"Connected", "Closed"} =>
              /\ bridge'.connect = "ok"
              /\ bridge'.listTools = "ok"
              /\ bridge'.error = "none" ]_vars

\* A connection that was built and then closed by its first cleanup.
C24_Witness ==
    /\ ConnectionState(bridge) = "Closed"
    /\ bridge.connect = "ok" /\ bridge.listTools = "ok"
    /\ bridge.cleanupCalls = 1


\* C25: when connect or the discovery of the tools fails while a bridge is
\* built, the close of the client and the close of the transport are each
\* attempted once, whatever the other close does, and the error thrown to the
\* caller is the error of the step that failed.
C25_FailedConstructionClosesBoth ==
    (bridge.connect = "throw" \/ bridge.listTools = "throw") =>
       /\ bridge.state = "failed"
       /\ bridge.clientCloseAttempts = 1
       /\ bridge.transportCloseAttempts = 1
       /\ bridge.error = IF bridge.connect = "throw" THEN "connectThrow"
                         ELSE "listThrow"

\* Discovery failed and the close of the client failed too, leaving the
\* client open; the transport was closed all the same.
C25_Witness ==
    /\ bridge.listTools = "throw"
    /\ bridge.client = "open"
    /\ bridge.clientCloseAttempts = 1
    /\ bridge.transport = "closed"
    /\ bridge.transportCloseAttempts = 1
    /\ bridge.error = "listThrow"


\* The first call made on the bridge has settled.
FirstCallSettled(b) == Len(b.calls) >= 1 /\ b.calls[1].status # "pending"

\* C26: on a bridge built with a credential that is not null the time of the
\* token exchange is recorded by the first tool call and no later tool call
\* changes it, however the calls overlap and whichever of them fail; on a
\* bridge built without a credential it stays null.
C26_LatencyRecordedOnceByFirstCall ==
    /\ [](bridge.accessToken = "null" => bridge.tokenExchangeTime = NoTime)
    /\ []((bridge.accessToken # "null" /\ FirstCallSettled(bridge))
             => bridge.tokenExchangeTime = Elapsed(1))
    /\ [][bridge.tokenExchangeTime # NoTime
            => bridge'.tokenExchangeTime = bridge.tokenExchangeTime]_vars


\* Call k settles in this step.
Settles(k) ==
    /\ k <= Len(bridge.calls)
    /\ bridge.calls[k].status = "pending"
    /\ bridge'.calls[k].status # "pending"

\* The result the remote tool gave call k discloses scopes.
Discloses(call) ==
    call.status = "ok" /\ call.remote.text = "json"
                      /\ call.remote.exchangedScopes # "none"

\* C27: the disclosed scopes are recorded once per bridge and the first
\* disclosure wins: they are recorded by the first call that settles with a
\* result that discloses scopes, and once recorded no call, successful or
\* failed, changes them.
C27_FirstDisclosedScopesWin ==
    [][ /\ bridge.exchangedScopes # "null"
             => bridge'.exchangedScopes = bridge.exchangedScopes
        /\ \A k \in 1..MaxCalls :
              (Settles(k) /\ bridge.exchangedScopes = "null") =>
                 bridge'.exchangedScopes =
                    IF Discloses(bridge'.calls[k])
                    THEN bridge'.calls[k].remote.exchangedScopes ELSE "null" ]_vars

\* The scopes of one call are recorded and a later call whose result
\* discloses other scopes has succeeded.
C27_Witness ==
    /\ bridge.exchangedScopes = "tasks:read"
    /\ \E k \in 1..Len(bridge.calls) :
          /\ Discloses(bridge.calls[k])
          /\ bridge.calls[k].remote.exchangedScopes = "tasks:write"
    /\ \E k \in 1..Len(bridge.calls) : bridge.calls[k].status = "failed"

\* C28: the extraction of the scopes is best-effort: a call whose remote
\* result has no text block, has a text that is not JSON, or has JSON that
\* discloses no scopes returns that result unchanged, raises nothing and
\* leaves the recorded scopes as they were.
C28_ScopeExtractionIsBestEffort ==
    [][ \A k \in 1..MaxCalls :
          (/\ Settles(k)
           /\ bridge'.calls[k].remoteError = "none"
           /\ ~Discloses([bridge'.calls[k] EXCEPT !.status = "ok"])) =>
              /\ bridge'.calls[k].status = "ok"
              /\ bridge'.calls[k].result = bridge'.calls[k].remote
              /\ bridge'.calls[k].raised = "none"
              /\ bridge'.exchangedScopes = bridge.exchangedScopes ]_vars

\* Calls have returned a result without a text block, one whose text is not
\* JSON and one whose JSON discloses nothing, and no scopes are recorded.
C28_Witness ==
    /\ bridge.exchangedScopes = "null"
    /\ \A text \in {"none", "not json", "json"} :
          \E k \in 1..Len(bridge.calls) :
             /\ bridge.calls[k].status = "ok"
             /\ bridge.calls[k].result = [text |-> text, exchangedScopes |-> "none"]


\* C29: the recorded time of the token exchange is null or the time the
\* exchange of the credential took by itself; it is never the time the whole
\* tool call took.
C29_LatencyIsExchangeAloneOrNull ==
    \/ bridge.tokenExchangeTime = NoTime
    \/ /\ bridge.tokenExchangeTime.from = "token exchange started"
       /\ bridge.tokenExchangeTime.to = "token exchange ended"


\* The positions of the requests with a method among those sent.
RequestsOf(b, method) ==
    {n \in 1..Len(b.outbound) : b.outbound[n].method = method}

\* C30: the tools are discovered once per connection, by the request that
\* follows the handshake; the list of tools given to the caller is not
\* fetched again and not changed by any later tool call or by getMetadata.
C30_DiscoveryOnceAndCached ==
    /\ [](bridge.state = "connected" =>
            /\ RequestsOf(bridge, "initialize") = {1}
            /\ RequestsOf(bridge, "tools/list") = {2}
            /\ bridge.tools = DiscoveredTools)
    /\ [](Cardinality(RequestsOf(bridge, "tools/list")) <= 1)
    /\ [][bridge.state = "connected" => bridge'.tools = bridge.tools]_vars

\* Tool calls were made and the metadata was read after them; the tools are
\* those of the one discovery.
C30_Witness ==
    /\ bridge.state = "connected"
    /\ bridge.metadata.returned
    /\ bridge.metadata.exchangedScopes = "tasks:read"
    /\ Cardinality(RequestsOf(bridge, "tools/call")) = 2
    /\ RequestsOf(bridge, "tools/list") = {2}
    /\ bridge.tools = DiscoveredTools


\* C36: every payload the task-creation tool forwards to the resource API has
\* a title that is a non-empty string, whichever of title and name the
\* accepted arguments supply.
C36_ForwardedTaskHasTitle ==
    \A i \in Invocations :
       (tool[i].name = "tv_create_task" /\ Len(tool[i].calls) > 0) =>
          LET body == tool[i].calls[1].body.v
          IN  /\ "title" \in DOMAIN body
              /\ body.title.t = "string"
              /\ Len(body.title.v) > 0


\* o is the trimmed form of p: p is o with white space before and after it,
\* and o neither starts nor ends with white space.
TrimmedFormOf(o, p) ==
    /\ o # <<>> => (o[1] # " " /\ o[Len(o)] # " ")
    /\ \E a \in 0..Len(p) :
          /\ a + Len(o) <= Len(p)
          /\ \A n \in 1..Len(p) :
                p[n] = IF n > a /\ n <= a + Len(o) THEN o[n - a] ELSE " "

\* o is the trimmed form of a prefix of the trimmed form of the input.
TrimmedPrefixOf(o, input) ==
    \E a \in 0..Len(input), b \in 0..Len(input) :
       /\ a <= b
       /\ TrimmedFormOf(SubSeq(input, a + 1, b), input)
       /\ \E n \in 0..(b - a) : TrimmedFormOf(o, SubSeq(input, a + 1, a + n))

\* C38: the output of the normalizer is the trimmed form of a prefix of the
\* trimmed input, so it is not longer than the trimmed input and holds no
\* text that is not at the start of the input.
C38_OutputIsTrimmedPrefix ==
    /\ norm.pc \in {"once", "twice"} =>
          /\ TrimmedPrefixOf(norm.out1, norm.input)
          /\ Len(norm.out1) <= Len(norm.input)
    /\ norm.pc = "twice" => TrimmedPrefixOf(norm.out2, norm.out1)

\* An input whose repeating unit ends with white space: the output is the
\* unit without it.
C38_Witness ==
    /\ norm.pc = "once"
    /\ norm.input = <<" ", "a", " ", "a", " ", "a">>
    /\ norm.out1 = <<"a">>

C35_InvalidTokenOnlyOnVerificationFailure ==
    \A i \in Requests :
       /\ reqs[i].response = InvalidTokenResponse =>
             /\ reqs[i].verifyOutcome = "fail"
             /\ reqs[i].handlerRuns = 0
       /\ (reqs[i].verifyOutcome = "ok" /\ reqs[i].pc = "done") =>
             /\ reqs[i].handlerRuns = 1
             /\ reqs[i].response.status # 401

C35_Witness ==
    \E i \in Requests :
       /\ authEnabled
       /\ reqs[i].verifyOutcome = "ok"
       /\ reqs[i].handlerRuns = 1
       /\ reqs[i].response = HandlerResponse("throw")

\* The positions of the session's token sets whose audience is, or as a list
\* contains, the audience configured for the tool server.
McpPositions(session) ==
    { k \in 1..Len(session.tokenSets) :
        LET audience == session.tokenSets[k].audience
        IN  \/ audience = [t |-> "string", v |-> MCP_AUTH0_AUDIENCE]
            \/ /\ audience.t = "array"
               /\ MCP_AUTH0_AUDIENCE \in {audience.v[j] : j \in DOMAIN audience.v} }

\* C37: the bridge of a chat request holds the access token of a token set
\* of the session with the tool server's audience and presents it on every
\* request it sends; without a session or without such a token set it holds
\* no credential and sends none.
C37_BridgeCredentialHasMcpAudience ==
    bridge.state # "none" =>
       LET mcp == McpPositions(chat.session)
       IN  IF ~chat.session.present \/ mcp = {}
           THEN /\ bridge.accessToken = "null"
                /\ bridge.authProvider = "none"
                /\ \A k \in DOMAIN bridge.outbound :
                      bridge.outbound[k].authorization = NoAuthorization
           ELSE \E p \in mcp :
                  LET token == chat.session.tokenSets[p].accessToken
                  IN  /\ bridge.accessToken = token
                      /\ bridge.authProvider = token
                      /\ \A k \in DOMAIN bridge.outbound :
                            bridge.outbound[k].authorization =
                               [scheme |-> "Bearer", token |-> token]

\* A session with a token set for another audience first: the bridge is
\* connected with the token of the second.
C37_Witness ==
    /\ chat.session = Session(<<OtherTokenSet, McpTokenSet>>)
    /\ bridge.state = "connected"
    /\ bridge.accessToken = "tokM"
    /\ Len(bridge.outbound) > 0

\* A session whose only token set is for another audience: the bridge is
\* connected without a credential.
C37_WitnessNoCredential ==
    /\ chat.session = Session(<<OtherTokenSet>>)
    /\ bridge.state = "connected"
    /\ bridge.authProvider = "none"

\* C34: once cleanup() has run on a bridge, no further request goes to the
\* remote tool server, and a tools/call request is sent only by a call made
\* while the connection is Connected.
C34_NoRequestAfterCleanup ==
    [][ /\ bridge.cleanupCalls > 0 => bridge'.outbound = bridge.outbound
        /\ Len(bridge'.outbound) > Len(bridge.outbound) =>
              ConnectionState(bridge) \in {"Disconnected", "Connecting", "Connected"}
      ]_vars

\* C31: the metadata follows the order in which the calls were issued: when
\* every call made on the bridge has settled, the recorded scopes are those of
\* the earliest-issued call whose result disclosed scopes and the recorded
\* time is that of the earliest-issued successful call on a bridge with a
\* credential; the metadata is read only when no call is pending.
C31_MetadataInIssueOrder ==
    /\ [][ (~bridge.metadata.returned /\ bridge'.metadata.returned) =>
             \A k \in 1..Len(bridge.calls) : bridge.calls[k].status # "pending"
         ]_vars
    /\ []( (\A k \in 1..Len(bridge.calls) : bridge.calls[k].status # "pending") =>
            LET disclosing == {k \in 1..Len(bridge.calls) : Discloses(bridge.calls[k])}
                timed      == {k \in 1..Len(bridge.calls) :
                                 /\ bridge.calls[k].status = "ok"
                                 /\ bridge.accessToken \notin {"null", ""}}
            IN  /\ disclosing # {} =>
                      bridge.exchangedScopes =
                         bridge.calls[Smallest(disclosing)].remote.exchangedScopes
                /\ timed # {} =>
                      bridge.tokenExchangeTime = Elapsed(Smallest(timed)) )

\* What bridge b presents and returns comes from its own credential and its
\* own calls: every request it sent carries its credential, or none when it
\* has none; the scopes its getMetadata returned were disclosed to one of its
\* calls; the time it returned was measured on one of its calls, and only
\* when it has a credential.
OwnOnly(b) ==
    /\ \A k \in DOMAIN b.outbound :
          b.outbound[k].authorization =
             IF b.accessToken \in {"null", ""}
             THEN [scheme |-> "none", token |-> "none"]
             ELSE [scheme |-> "Bearer", token |-> b.accessToken]
    /\ b.metadata.exchangedScopes \in
          {"null"} \cup { b.calls[k].remote.exchangedScopes :
                            k \in {j \in DOMAIN b.calls : Discloses(b.calls[j])} }
    /\ b.metadata.tokenExchangeTime \in
          {NoTime} \cup { Elapsed(k) :
                            k \in {j \in DOMAIN b.calls :
                                      /\ b.calls[j].status = "ok"
                                      /\ b.accessToken \notin {"null", ""}} }

\* C32: two concurrent chat requests each own their bridge: whatever the
\* interleaving, a step of one request leaves the bridge of the other as it
\* was, and the credential each bridge presents and the metadata each
\* returns come from its own request alone.
C32_BridgeOwnedByItsRequest ==
    /\ [](OwnOnly(bridge) /\ OwnOnly(peer))
    /\ [][bridge' = bridge \/ peer' = peer]_vars

\* Both requests have a bridge with a credential of their own, the second
\* request's call has disclosed scopes, and the first request has read
\* metadata without scopes.
C32_Witness ==
    /\ bridge.accessToken = "tokM" /\ peer.accessToken = "tokP"
    /\ peer.exchangedScopes = "tasks:write"
    /\ peer.metadata.returned /\ peer.metadata.exchangedScopes = "tasks:write"
    /\ bridge.metadata.returned /\ bridge.metadata.exchangedScopes = "null"
    /\ Len(bridge.calls) = 1 /\ bridge.calls[1].status = "ok"

\* What a log entry may show of a token: its first character and a mask.
RedactedPrefix(token) == <<token[1], "*", "*", "*">>

\* C33: no log entry of the ingress verifier shows more of the bearer token
\* than a redacted prefix: an entry carries no value, the error of a failed
\* verification, or the first character of the token followed by a mask, and
\* never the token or the payload decoded from it.
C33_LogsShowNoTokenMaterial ==
    \A i \in Requests :
       \A k \in DOMAIN reqs[i].log :
          LET value == reqs[i].log[k].value
          IN  \/ value.t \in {"none", "error"}
              \/ /\ value.t = "redacted"
                 /\ value.v = RedactedPrefix(reqs[i].accessToken)

====
